---- MODULE Spec2Model ----
(***************************************************************************)
(* Resilience engine of the speech pipeline: ErrorHandler.withRetry,       *)
(* ErrorHandler.withCircuitBreaker and the per-key circuit records they    *)
(* share (src/src/js/util/ErrorHandler.ts).  Execution is single-threaded: *)
(* every action below is one run-to-completion segment of the code between *)
(* two awaits (the call of the operation, the backoff sleep).              *)
(***************************************************************************)
EXTENDS Integers, Sequences, FiniteSets, TLC

(* ---------------- bounds of the model ---------------- *)
Epoch == 100000        \* value of Date.now() in the initial state
Horizon == 90000       \* the clock stops Horizon ms after Epoch
MaxFailures == 6       \* no failure is recorded on a circuit beyond this count
MaxProviders == 3      \* provider objects constructed in one behaviour
MaxErrors == 2         \* errors passed to handleError in one behaviour
MaxHandled == 102      \* errors passed to handleError where the history fills up

(* ---------------- program constants ---------------- *)
defaultMaxAttempts == 3
defaultBaseDelay == 1000
maxDelay == 10000
backoffMultiplier == 2
failureThreshold == 5
successThreshold == 2
timeout == 60000
healthTimeout == 3000        \* the timer raced against the health probe
sampleRate == 22050
maxTextLength == 5000

(* ---------------- inputs ---------------- *)
SpeakKey == "NLPClient.generateSpeech"
SentenceKey == "NLPClient.buildSentence"
Keys == {"k1", "k2", SpeakKey, SentenceKey}   \* circuit names
NoKey == "none"                       \* options.context === undefined
Errors == {"e1", "e2"}                \* values an operation may reject with
Values == {"v1", "v2"}                \* values an operation may resolve with
Undefined == "undefined"
\* Spec: two overlapping logical calls share the circuit "k1" through both
\* withRetry and withCircuitBreaker
Calls == {1, 2}
IsolationKeys == {"k1", "k2"}          \* keys of callers that do not share a circuit
TwoAttempts == {2}                    \* options.maxRetries of those callers
AttemptChoices == {0 - 1, 0, 1, defaultMaxAttempts}   \* options.maxRetries, any integer
SharedKeys == {"k1"}
SharedMaxRetries == {1, defaultMaxAttempts}     \* options.maxRetries
SharedRetryDelays == {defaultBaseDelay}         \* options.retryDelay
SharedTicks == {30000}                \* amounts by which the clock advances
\* RetrySpec: one caller at a time uses withRetry only, as the remote client
\* does, with or without a circuit key and over the whole range of options
SoloCalls == {1}
ClientKeys == {"k2", NoKey}
MaxRetriesChoices == {0, 1, defaultMaxAttempts, 6}
RetryDelayChoices == {defaultBaseDelay, 2000}
ClientTicks == {10000, 30000}

VARIABLES
  now,        \* Date.now()
  circuits,   \* ErrorHandler.circuits: key -> record, or NoCircuit if absent
  calls,      \* one record per logical call: position and locals
  failRun,    \* history: per key, how many of the most recent recorded outcomes
              \* were failures in a row (counted up to failureThreshold)
  supplied,   \* history: the options object each logical call was given
  instance,   \* TTSServiceFactory.instance: a provider, or NoProvider for null
  providers,  \* the provider objects constructed so far, by identity
  getters,    \* one record per call of TTSServiceFactory.getInstance
  created,    \* history: runs of createInstance since the latest reset()
  speechApi,  \* 'speechSynthesis' in window
  synths,     \* one record per call of synthesize
  sessions,   \* one record per call of play
  results,    \* the callers' ITTSResult.audioData buffers, by the bytes they hold
  errorHistory,  \* ErrorHandler.errorHistory
  handled,    \* history: errors processed so far, which numbers the generated ids
  view,       \* the array the latest operation returned, if it was getErrorHistory
  returned,   \* the record the latest call of handleError returned
  adapter,    \* the provider the speech adapter captured when it patched
              \* window.speechSynthesis.speak, or NoProvider before that
  speaks      \* one record per call of the patched speak, by its utterance

engineVars == <<now, circuits, calls, failRun, supplied>>
hostVars == <<speechApi, adapter, speaks>>
ttsVars == <<instance, providers, getters, created, hostVars, synths>>
historyVars == <<errorHistory, handled, view, returned>>
playVars == <<sessions, results, historyVars>>
vars == <<engineVars, ttsVars, playVars>>
\* what the resilience engine never touches
outsideEngine == <<ttsVars, playVars>>

NoCircuit == [state |-> "NONE", failures |-> 0, successes |-> 0, lastFailureTime |-> 0]
NoResult == [tag |-> "pending", code |-> "none", cause |-> Undefined]

Min(a, b) == IF a <= b THEN a ELSE b

RECURSIVE Pow(_, _)
Pow(b, e) == IF e <= 0 THEN 1 ELSE b * Pow(b, e - 1)

(* ---------------- results of a call ---------------- *)
\* variant: the operation's error wrapped in a new AppError
RethrownWrapped(e) == [tag |-> "rejected", code |-> "UNKNOWN_ERROR", cause |-> e]

\* a resolved promise
Resolved(v) == [tag |-> "resolved", code |-> "none", cause |-> v]
\* new AppError(code, message, details): cause is the value kept in details
AppError(code, cause) == [tag |-> "rejected", code |-> code, cause |-> cause]
\* the operation's own error value, rethrown as it is
Rethrown(e) == [tag |-> "rejected", code |-> "OP_ERROR", cause |-> e]

(* ---------------- circuit records ---------------- *)
getOrCreateCircuit(cs, k) ==
  IF cs[k] = NoCircuit
  THEN [cs EXCEPT ![k] = [state |-> "CLOSED", failures |-> 0, successes |-> 0,
                          lastFailureTime |-> 0]]
  ELSE cs

\* variant: the circuit opens only above the threshold
recordFailureAboveThreshold(cs, k, t) ==
  LET c0 == getOrCreateCircuit(cs, k)[k]
      c1 == [c0 EXCEPT !.failures = @ + 1, !.lastFailureTime = t, !.successes = 0]
      c2 == IF c1.failures > failureThreshold
            THEN [c1 EXCEPT !.state = "OPEN"]
            ELSE c1
  IN [cs EXCEPT ![k] = c2]

\* variant: a failure leaves the success counter as it is
recordFailureKeepsSuccesses(cs, k, t) ==
  LET c0 == getOrCreateCircuit(cs, k)[k]
      c1 == [c0 EXCEPT !.failures = @ + 1, !.lastFailureTime = t]
      c2 == IF c1.failures >= failureThreshold
            THEN [c1 EXCEPT !.state = "OPEN"]
            ELSE c1
  IN [cs EXCEPT ![k] = c2]

recordFailure(cs, k, t) ==
  LET c0 == getOrCreateCircuit(cs, k)[k]
      c1 == [c0 EXCEPT !.failures = @ + 1, !.lastFailureTime = t, !.successes = 0]
      c2 == IF c1.failures >= failureThreshold
            THEN [c1 EXCEPT !.state = "OPEN"]
            ELSE c1
  IN [cs EXCEPT ![k] = c2]

\* variant: closing the circuit leaves the failure counter as it is
recordSuccessKeepsFailures(cs, k) ==
  LET c0 == getOrCreateCircuit(cs, k)[k]
      c1 == IF c0.state = "HALF_OPEN"
            THEN LET s == [c0 EXCEPT !.successes = @ + 1]
                 IN IF s.successes >= successThreshold
                    THEN [s EXCEPT !.state = "CLOSED", !.successes = 0]
                    ELSE s
            ELSE IF c0.state = "CLOSED"
                 THEN [c0 EXCEPT !.failures = 0]
                 ELSE c0
  IN [cs EXCEPT ![k] = c1]

recordSuccess(cs, k) ==
  LET c0 == getOrCreateCircuit(cs, k)[k]
      c1 == IF c0.state = "HALF_OPEN"
            THEN LET s == [c0 EXCEPT !.successes = @ + 1]
                 IN IF s.successes >= successThreshold
                    THEN [s EXCEPT !.state = "CLOSED", !.failures = 0, !.successes = 0]
                    ELSE s
            ELSE IF c0.state = "CLOSED"
                 THEN [c0 EXCEPT !.failures = 0]
                 ELSE c0
  IN [cs EXCEPT ![k] = c1]

\* variant: the cooldown is taken to be half of timeout
isCircuitOpenHalfCooldown(cs, k, t) ==
  IF cs[k] = NoCircuit
  THEN [open |-> FALSE, circuits |-> cs]
  ELSE IF cs[k].state = "OPEN"
       THEN IF t - cs[k].lastFailureTime >= timeout \div 2
            THEN [open |-> FALSE, circuits |-> [cs EXCEPT ![k].state = "HALF_OPEN"]]
            ELSE [open |-> TRUE, circuits |-> cs]
       ELSE [open |-> FALSE, circuits |-> cs]

\* variant: the query creates the record of a key it does not know
isCircuitOpenCreates(cs, k, t) ==
  LET cs0 == getOrCreateCircuit(cs, k)
  IN IF cs0[k].state = "OPEN"
     THEN IF t - cs0[k].lastFailureTime >= timeout
          THEN [open |-> FALSE, circuits |-> [cs0 EXCEPT ![k].state = "HALF_OPEN"]]
          ELSE [open |-> TRUE, circuits |-> cs0]
     ELSE [open |-> FALSE, circuits |-> cs0]

\* isCircuitOpen returns a boolean and may move the record to HALF_OPEN
isCircuitOpen(cs, k, t) ==
  IF cs[k] = NoCircuit
  THEN [open |-> FALSE, circuits |-> cs]
  ELSE IF cs[k].state = "OPEN"
       THEN IF t - cs[k].lastFailureTime >= timeout
            THEN [open |-> FALSE, circuits |-> [cs EXCEPT ![k].state = "HALF_OPEN"]]
            ELSE [open |-> TRUE, circuits |-> cs]
       ELSE [open |-> FALSE, circuits |-> cs]

\* variant: the delay is not capped
backoffDelayUncapped(baseDelay, attempt) ==
  baseDelay * Pow(backoffMultiplier, attempt)

\* the backoff delay computed after failed attempt number attempt
backoffDelay(baseDelay, attempt) ==
  Min(baseDelay * Pow(backoffMultiplier, attempt), maxDelay)

\* variant: the last attempt is tested one too late
catchDecisionOffByOne(keyed, open, attempt, maxRetries) ==
  IF keyed /\ open THEN "circuit_open"
  ELSE IF attempt = maxRetries THEN "break"
  ELSE "sleep"

\* variant: the last attempt is tested before the circuit
catchDecisionBreakFirst(keyed, open, attempt, maxRetries) ==
  IF attempt = maxRetries - 1 THEN "break"
  ELSE IF keyed /\ open THEN "circuit_open"
  ELSE "sleep"

\* the order of the checks in the catch block of withRetry
catchDecision(keyed, open, attempt, maxRetries) ==
  IF keyed /\ open THEN "circuit_open"
  ELSE IF attempt = maxRetries - 1 THEN "break"
  ELSE "sleep"

(* ---------------- logical calls ---------------- *)
IdleCall ==
  [kind |-> "idle", op |-> "none", key |-> NoKey, pc |-> "idle", attempt |-> 0,
   maxRetries |-> 0, baseDelay |-> 0, lastError |-> Undefined, wakeAt |-> 0,
   result |-> NoResult,
   \* history of the call, read by the properties only
   invoked |-> 0,          \* invocations of the operation
   waits |-> <<>>,         \* delays passed to sleep, in order
   recS |-> 0, recF |-> 0, \* calls of recordSuccess / recordFailure
   settled |-> Undefined,  \* what the latest invocation resolved or rejected with
   seen |-> "NONE"]        \* withCircuitBreaker: state of the circuit after its query

\* a new logical call takes the lowest free slot
FreeSlot(c) ==
  /\ calls[c].pc = "idle"
  /\ \A d \in Calls : d < c => calls[d].pc # "idle"

\* the circuit of k refuses calls at time t: OPEN and still within the cooldown
OpenWithinCooldown(cs, k, t) ==
  /\ k \in Keys
  /\ cs[k].state = "OPEN"
  /\ t - cs[k].lastFailureTime < timeout

\* history update when an outcome is recorded against key k
NoteSuccess(k) ==
  failRun' = IF k \in Keys THEN [failRun EXCEPT ![k] = 0] ELSE failRun

NoteFailure(k) ==
  failRun' = IF k \in Keys
             THEN [failRun EXCEPT ![k] = Min(@ + 1, failureThreshold)]
             ELSE failRun

(* ---------------- withRetry ---------------- *)
\* withRetry is called: the loop is entered and, if attempt 0 < maxRetries,
\* the operation is invoked at once; otherwise the call rejects after the loop
\* variant: the loop condition is tested after the first attempt only
withRetryAsDoWhile(c, op, k, mr, bd) ==
  /\ FreeSlot(c)
  /\ calls' = [calls EXCEPT ![c] =
       [IdleCall EXCEPT !.kind = "retry", !.op = op, !.key = k, !.maxRetries = mr,
                        !.baseDelay = bd, !.pc = "await", !.invoked = 1]]
  /\ UNCHANGED <<now, circuits, failRun>>

\* op names the operation of the remote client that is wrapped, if it is one
withRetryAs(c, op, k, mr, bd) ==
  /\ FreeSlot(c)
  /\ LET base == [IdleCall EXCEPT !.kind = "retry", !.op = op, !.key = k,
                                  !.maxRetries = mr, !.baseDelay = bd]
     IN calls' = [calls EXCEPT ![c] =
          IF 0 < mr
          THEN [base EXCEPT !.pc = "await", !.invoked = 1]
          ELSE [base EXCEPT !.pc = "done",
                            !.result = AppError("UNKNOWN_ERROR", Undefined)]]
  /\ UNCHANGED <<now, circuits, failRun>>

withRetryEnter(c, k, mr, bd) == withRetryAs(c, "none", k, mr, bd)

\* options.f ?? d
optionOr(o, f, d) == IF f \in DOMAIN o THEN o[f] ELSE d

\* variant: options.maxRetries is not looked at
maxRetriesOptionIgnored(o) == defaultMaxAttempts

\* const maxRetries = options.maxRetries ?? this.defaultRetryConfig.maxAttempts
maxRetriesOption(o) == optionOr(o, "maxRetries", defaultMaxAttempts)
\* const baseDelay = options.retryDelay ?? this.defaultRetryConfig.baseDelay
retryDelayOption(o) == optionOr(o, "retryDelay", defaultBaseDelay)

\* withRetry(operation, o): of the object o the code reads context,
\* maxRetries and retryDelay; whatever else o holds is never looked at
WithRetryCall(c, o) ==
  /\ withRetryEnter(c, o.context, maxRetriesOption(o), retryDelayOption(o))
  /\ supplied' = [supplied EXCEPT ![c] = o]
  /\ UNCHANGED outsideEngine

\* a caller that passes maxRetries and retryDelay and nothing else
WithRetryStart(c, k, mr, bd) ==
  /\ withRetryEnter(c, k, mr, bd)
  /\ UNCHANGED <<supplied, outsideEngine>>

\* variant: the success is recorded but the loop goes on while attempts remain
WithRetrySuccessNoReturn(c, v) ==
  /\ calls[c].kind = "retry" /\ calls[c].pc = "await"
  /\ LET k == calls[c].key
         me == [calls[c] EXCEPT !.settled = v,
                                !.recS = IF k # NoKey THEN @ + 1 ELSE @]
     IN /\ circuits' = IF k # NoKey THEN recordSuccess(circuits, k) ELSE circuits
        /\ calls' = [calls EXCEPT ![c] =
             IF me.attempt + 1 < me.maxRetries
             THEN [me EXCEPT !.attempt = @ + 1, !.invoked = @ + 1]
             ELSE [me EXCEPT !.pc = "done", !.result = Resolved(v)]]
        /\ NoteSuccess(k)
  /\ UNCHANGED <<now, supplied, outsideEngine>>

\* the awaited operation resolves with v
WithRetrySuccess(c, v) ==
  /\ calls[c].kind = "retry" /\ calls[c].pc = "await"
  /\ LET k == calls[c].key
     IN /\ circuits' = IF k # NoKey THEN recordSuccess(circuits, k) ELSE circuits
        /\ calls' = [calls EXCEPT ![c].pc = "done", ![c].result = Resolved(v),
                                  ![c].settled = v,
                                  ![c].recS = IF k # NoKey THEN @ + 1 ELSE @]
        /\ NoteSuccess(k)
  /\ UNCHANGED <<now, supplied, outsideEngine>>

\* variant: each call counts its failures in a record of its own and writes
\* that count back
WithRetryFailureOwnCount(c, e) ==
  /\ calls[c].kind = "retry" /\ calls[c].pc = "await"
  /\ LET k == calls[c].key
         me == calls[c]
         cs1 == IF k # NoKey
                THEN recordFailure([circuits EXCEPT ![k].failures = me.recF], k, now)
                ELSE circuits
         q == IF k # NoKey THEN isCircuitOpen(cs1, k, now)
                           ELSE [open |-> FALSE, circuits |-> cs1]
         delay == backoffDelay(me.baseDelay, me.attempt)
         caught == [me EXCEPT !.lastError = e, !.settled = e,
                              !.recF = IF k # NoKey THEN @ + 1 ELSE @]
         what == catchDecision(k # NoKey, q.open, me.attempt, me.maxRetries)
         next ==
           CASE what = "circuit_open" ->
                  [caught EXCEPT !.pc = "done", !.result = AppError("INVALID_STATE", e)]
             [] what = "break" ->
                  [caught EXCEPT !.pc = "done", !.result = AppError("UNKNOWN_ERROR", e)]
             [] OTHER ->
                  [caught EXCEPT !.pc = "sleep", !.wakeAt = now + delay,
                                 !.waits = Append(@, delay)]
     IN /\ k \in Keys => circuits[k].failures < MaxFailures
        /\ circuits' = q.circuits
        /\ calls' = [calls EXCEPT ![c] = next]
        /\ NoteFailure(k)
  /\ UNCHANGED <<now, supplied, outsideEngine>>

\* the awaited operation rejects with e: the whole catch block
WithRetryFailure(c, e) ==
  /\ calls[c].kind = "retry" /\ calls[c].pc = "await"
  /\ LET k == calls[c].key
         me == calls[c]
         cs1 == IF k # NoKey THEN recordFailure(circuits, k, now) ELSE circuits
         q == IF k # NoKey THEN isCircuitOpen(cs1, k, now)
                           ELSE [open |-> FALSE, circuits |-> cs1]
         delay == backoffDelay(me.baseDelay, me.attempt)
         caught == [me EXCEPT !.lastError = e, !.settled = e,
                              !.recF = IF k # NoKey THEN @ + 1 ELSE @]
         what == catchDecision(k # NoKey, q.open, me.attempt, me.maxRetries)
         next ==
           CASE what = "circuit_open" ->
                  [caught EXCEPT !.pc = "done", !.result = AppError("INVALID_STATE", e)]
             [] what = "break" ->
                  [caught EXCEPT !.pc = "done", !.result = AppError("UNKNOWN_ERROR", e)]
             [] OTHER ->
                  [caught EXCEPT !.pc = "sleep", !.wakeAt = now + delay,
                                 !.waits = Append(@, delay)]
     IN /\ k \in Keys => circuits[k].failures < MaxFailures
        /\ circuits' = q.circuits
        /\ calls' = [calls EXCEPT ![c] = next]
        /\ NoteFailure(k)
  /\ UNCHANGED <<now, supplied, outsideEngine>>

\* the backoff timer fires: attempt++ and the loop condition is tested again
WithRetryWake(c) ==
  /\ calls[c].kind = "retry" /\ calls[c].pc = "sleep"
  /\ now >= calls[c].wakeAt
  /\ LET me == [calls[c] EXCEPT !.attempt = @ + 1]
     IN calls' = [calls EXCEPT ![c] =
          IF me.attempt < me.maxRetries
          THEN [me EXCEPT !.pc = "await", !.invoked = @ + 1]
          ELSE [me EXCEPT !.pc = "done",
                          !.result = AppError("UNKNOWN_ERROR", me.lastError)]]
  /\ UNCHANGED <<now, circuits, failRun, supplied, outsideEngine>>

(* ---------------- withCircuitBreaker ---------------- *)
\* withCircuitBreaker is called: the circuit is queried, then either the call
\* rejects or the operation is invoked
WithCircuitBreakerStart(c, k) ==
  /\ FreeSlot(c)
  /\ LET q == isCircuitOpen(circuits, k, now)
         base == [IdleCall EXCEPT !.kind = "cb", !.key = k]
     IN /\ circuits' = q.circuits
        /\ calls' = [calls EXCEPT ![c] =
             IF q.open
             THEN [base EXCEPT !.pc = "done", !.result = AppError("INVALID_STATE", k)]
             ELSE [base EXCEPT !.pc = "await", !.invoked = 1,
                               !.seen = q.circuits[k].state]]
  /\ UNCHANGED <<now, failRun, supplied, outsideEngine>>

WithCircuitBreakerSuccess(c, v) ==
  /\ calls[c].kind = "cb" /\ calls[c].pc = "await"
  /\ LET k == calls[c].key
     IN /\ circuits' = recordSuccess(circuits, k)
        /\ calls' = [calls EXCEPT ![c].pc = "done", ![c].result = Resolved(v),
                                  ![c].settled = v, ![c].recS = @ + 1]
        /\ NoteSuccess(k)
  /\ UNCHANGED <<now, supplied, outsideEngine>>

WithCircuitBreakerFailure(c, e) ==
  /\ calls[c].kind = "cb" /\ calls[c].pc = "await"
  /\ LET k == calls[c].key
     IN /\ circuits[k].failures < MaxFailures
        /\ circuits' = recordFailure(circuits, k, now)
        /\ calls' = [calls EXCEPT ![c].pc = "done", ![c].result = Rethrown(e),
                                  ![c].settled = e, ![c].recF = @ + 1]
        /\ NoteFailure(k)
  /\ UNCHANGED <<now, supplied, outsideEngine>>

(* ---------------- environment ---------------- *)
\* the caller has consumed the settled promise; the slot is free again
Return(c) ==
  /\ calls[c].pc = "done"
  /\ calls' = [calls EXCEPT ![c] = IdleCall]
  /\ UNCHANGED <<now, circuits, failRun, supplied, outsideEngine>>

\* time passes
Tick(d) ==
  /\ now + d <= Epoch + Horizon
  /\ now' = now + d
  /\ UNCHANGED <<circuits, calls, failRun, supplied, outsideEngine>>

(* ---------------- options, synthesis and playback records ---------------- *)
NoOptions == [context |-> NoKey]
\* OverrideSpec: options objects that name further retry and circuit
\* parameters next to the two that IErrorHandlingOptions declares
OverrideOptions ==
  { [context |-> "k1"],
    [context |-> "k1", maxRetries |-> 5, retryDelay |-> 2000],
    [context |-> "k1", maxRetries |-> 6, maxDelay |-> 5000, backoffMultiplier |-> 3],
    [context |-> "k1", maxRetries |-> 4, failureThreshold |-> 2,
     successThreshold |-> 1, timeout |-> 30000] }
SoloValues == {"v1"}
SoloErrors == {"e1"}
Synths == {1, 2}                      \* overlapping calls of synthesize
SoloSynths == {1}
\* options.text, as far as the code looks at it: its length, its number of
\* words (maximal runs of non-whitespace) and whether it starts / ends with
\* whitespace
Texts ==
  { [length |-> 0, words |-> 0, lead |-> FALSE, trail |-> FALSE],
    [length |-> 3, words |-> 0, lead |-> TRUE, trail |-> TRUE],
    [length |-> 1, words |-> 1, lead |-> FALSE, trail |-> FALSE],
    [length |-> 5, words |-> 2, lead |-> TRUE, trail |-> TRUE],
    [length |-> 17, words |-> 9, lead |-> FALSE, trail |-> FALSE],
    [length |-> maxTextLength, words |-> 1, lead |-> FALSE, trail |-> FALSE],
    [length |-> maxTextLength, words |-> 2, lead |-> FALSE, trail |-> TRUE],
    [length |-> maxTextLength + 1, words |-> 1, lead |-> FALSE, trail |-> FALSE],
    [length |-> maxTextLength + 1, words |-> 0, lead |-> TRUE, trail |-> TRUE] }
NoText == [length |-> 0, words |-> 0, lead |-> FALSE, trail |-> FALSE]
speechMaxRetries == 2                 \* NLPClient.generateSpeech: maxRetries
speechRetryDelay == 2000              \* NLPClient.generateSpeech: retryDelay
Sessions == {1, 2}                    \* overlapping calls of play
Utterances == {"u1", "u2"}            \* utterance objects handed to the patched speak
\* utterance.text: an empty and a valid text
AdapterTexts == {t \in Texts : t.length \in {0, 17}}
SoloSessions == {1}
PlayErrors == {"InvalidStateError"}   \* Error objects the audio API throws
NewContextStates == {"running", "suspended"}   \* state of a new AudioContext
maxHistorySize == 100

(* ---------------- remote client: NLPClient ---------------- *)
retryAttempts == 1                    \* NLPClient.config.retryAttempts
sentenceRetryDelay == 1000            \* NLPClient.buildSentence: retryDelay
RemoteOps == {"health", "sentence", "speech"}

\* variant: sentence assembly runs under the circuit of speech generation
buildSentenceSharedKey(c) ==
  withRetryAs(c, "sentence", SpeakKey, retryAttempts, sentenceRetryDelay)

\* NLPClient.buildSentence up to its await
buildSentence(c) ==
  withRetryAs(c, "sentence", SentenceKey, retryAttempts, sentenceRetryDelay)

\* NLPClient.generateSpeech up to its await
generateSpeech(c) ==
  withRetryAs(c, "speech", SpeakKey, speechMaxRetries, speechRetryDelay)

BuildSentence(c) == buildSentence(c) /\ UNCHANGED <<supplied, outsideEngine>>

GenerateSpeech(c) == generateSpeech(c) /\ UNCHANGED <<supplied, outsideEngine>>

\* NLPClient.healthCheck up to its await: one fetch, outside withRetry
HealthCheck(c) ==
  /\ FreeSlot(c)
  /\ calls' = [calls EXCEPT ![c] =
       [IdleCall EXCEPT !.kind = "fetch", !.op = "health", !.pc = "await",
                        !.invoked = 1]]
  /\ UNCHANGED <<now, circuits, failRun, supplied, outsideEngine>>

\* the probe's response has a success status and a body that parses
HealthCheckResponds(c, status) ==
  /\ calls[c].kind = "fetch" /\ calls[c].pc = "await"
  /\ calls' = [calls EXCEPT ![c].pc = "done", ![c].result = Resolved(status),
                            ![c].settled = status]
  /\ UNCHANGED <<now, circuits, failRun, supplied, outsideEngine>>

\* the fetch rejects, times out, or the response has another status: the
\* catch block logs the error and throws it again
HealthCheckFails(c, e) ==
  /\ calls[c].kind = "fetch" /\ calls[c].pc = "await"
  /\ calls' = [calls EXCEPT ![c].pc = "done", ![c].result = Rethrown(e),
                            ![c].lastError = e, ![c].settled = e]
  /\ UNCHANGED <<now, circuits, failRun, supplied, outsideEngine>>

(* ---------------- provider selection: TTSServiceFactory ---------------- *)
NoProvider == 0                       \* null
ProviderIds == 1..MaxProviders        \* identities of provider objects
Getters == {1, 2}                     \* overlapping calls of getInstance
HealthStatuses == {"ok", "degraded"}  \* health.status in a probe's response
SelectorTicks == {30000}

\* a provider object: kind "none" until it is constructed
NoProviderObject ==
  [kind |-> "none", isInitialized |-> FALSE, serverAvailable |-> FALSE,
   synth |-> FALSE,          \* MockTTSService.synth !== null
   activeRequests |-> 0,
   ctx |-> "null",           \* audioContext: null, or the state of the context
   \* history, read by the properties only
   cleanups |-> 0,           \* calls of cleanup() on this object
   probe |-> "none",         \* status the health probe reported to initialize()
   late |-> "none"]          \* status of a response that came after the timer

NoInstance == [tag |-> "pending", prov |-> NoProvider]

IdleGetter ==
  [pc |-> "idle", prov |-> NoProvider, deadline |-> 0, result |-> NoInstance,
   error |-> "none"]         \* the error getInstance rejected with
\* what MockTTSService.initialize throws without the platform's speech API
LocalInitError == "Web Speech API not supported in this browser"

\* new XTTSService(): the object takes the lowest unused identity
Fresh(p) ==
  /\ providers[p].kind = "none"
  /\ \A q \in ProviderIds : q < p => providers[q].kind # "none"

\* TTSService.stop() on object o: the context is closed and, once close()
\* has resolved, forgotten
stop(o) == IF o.ctx # "null" THEN [o EXCEPT !.ctx = "closed"] ELSE o

\* variant: cleanup() releases the resources and leaves the provider marked
\* initialized
cleanupKeepsInitialized(o) ==
  [stop(o) EXCEPT !.serverAvailable = FALSE, !.synth = FALSE, !.cleanups = @ + 1]

\* cleanup() of either provider class, on object o
cleanup(o) ==
  [stop(o) EXCEPT !.isInitialized = FALSE, !.serverAvailable = FALSE,
                  !.synth = FALSE, !.cleanups = @ + 1]

\* history: a run of createInstance / a provider handed out by getInstance
NoteCreation == created' = [created EXCEPT !.runs = @ + 1]
NoteHandout(p) == created' = [created EXCEPT !.resolved = @ \cup {p}]

\* getInstance is called: the cached instance is returned, or createInstance
\* constructs the remote provider and its initialize() starts the health probe
\* and the timer it is raced against
GetInstanceStart(g, p) ==
  /\ getters[g].pc = "idle"
  /\ IF instance # NoProvider
     THEN /\ p = instance
          /\ getters' = [getters EXCEPT ![g].pc = "done",
                           ![g].result = [tag |-> "resolved", prov |-> instance]]
          /\ NoteHandout(instance)
          /\ UNCHANGED providers
     ELSE /\ Fresh(p)
          /\ providers' = [providers EXCEPT ![p].kind = "server"]
          /\ getters' = [getters EXCEPT ![g].pc = "remote", ![g].prov = p,
                                        ![g].deadline = now + healthTimeout]
          /\ NoteCreation
  /\ UNCHANGED <<instance, hostVars, synths, engineVars, playVars>>

\* the probe answers before the timer fires: initialize() returns, so does
\* createInstance, and getInstance caches the provider and returns it
RemoteInitOk(g, status) ==
  /\ getters[g].pc = "remote"
  /\ LET p == getters[g].prov
     IN /\ providers' = [providers EXCEPT ![p].serverAvailable = (status = "ok"),
                                          ![p].isInitialized = TRUE,
                                          ![p].probe = status]
        /\ instance' = p
        /\ getters' = [getters EXCEPT ![g].pc = "done",
                                      ![g].result = [tag |-> "resolved", prov |-> p]]
        /\ NoteHandout(p)
  /\ UNCHANGED <<hostVars, synths, engineVars, playVars>>

\* variant: a failed remote initialization is rethrown by createInstance
createInstanceNoFallback(g, q) ==
  /\ getters' = [getters EXCEPT ![g].pc = "done",
                                ![g].result = [tag |-> "rejected", prov |-> NoProvider]]
  /\ UNCHANGED <<instance, providers, created, hostVars, synths, engineVars, playVars>>

\* variant: the local provider is cached even though its initialize() threw
fallbackFromCachesFailed(ps, g, q) ==
  /\ Fresh(q)
  /\ IF speechApi
     THEN /\ providers' = [ps EXCEPT ![q].kind = "mock", ![q].synth = TRUE]
          /\ getters' = [getters EXCEPT ![g].pc = "local", ![g].prov = q]
          /\ UNCHANGED instance
     ELSE /\ providers' = [ps EXCEPT ![q].kind = "mock"]
          /\ getters' = [getters EXCEPT ![g].pc = "done", ![g].prov = q,
                           ![g].result = [tag |-> "rejected", prov |-> NoProvider],
                           ![g].error = LocalInitError]
          /\ instance' = q
  /\ UNCHANGED <<created, hostVars, synths, engineVars, playVars>>

\* the catch block of createInstance: the local provider q is constructed and
\* its initialize() either throws at once or waits for the voices; ps are the
\* provider objects as the failed initialize() has left them
fallbackFrom(ps, g, q) ==
  /\ Fresh(q)
  /\ IF speechApi
     THEN /\ providers' = [ps EXCEPT ![q].kind = "mock", ![q].synth = TRUE]
          /\ getters' = [getters EXCEPT ![g].pc = "local", ![g].prov = q]
     ELSE /\ providers' = [ps EXCEPT ![q].kind = "mock"]
          /\ getters' = [getters EXCEPT ![g].pc = "done", ![g].prov = q,
                           ![g].result = [tag |-> "rejected", prov |-> NoProvider],
                           ![g].error = LocalInitError]
  /\ UNCHANGED <<instance, created, hostVars, synths, engineVars, playVars>>

createInstanceFallback(g, q) == fallbackFrom(providers, g, q)

\* the probe rejects before the timer fires: network error, non-2xx response
\* or its own abort signal
RemoteInitFails(g, q) ==
  /\ getters[g].pc = "remote"
  /\ createInstanceFallback(g, q)

\* the timer fires first: initialize() rejects and the probe, which nothing
\* aborts, stays in flight
RemoteInitTimeout(g, q) ==
  /\ getters[g].pc = "remote"
  /\ now >= getters[g].deadline
  /\ fallbackFrom([providers EXCEPT ![getters[g].prov].probe = "abandoned"], g, q)

\* variant: a response that comes after the timer completes initialize()
LateProbeCompletesInit(p, status) ==
  /\ providers[p].probe = "abandoned" /\ providers[p].late = "none"
  /\ providers' = [providers EXCEPT ![p].late = status,
                                    ![p].serverAvailable = (status = "ok"),
                                    ![p].isInitialized = TRUE]
  /\ UNCHANGED <<instance, getters, created, hostVars, synths, engineVars, playVars>>

\* the abandoned probe answers: the race it was part of is settled, and
\* nothing else waits for it
LateProbeSettles(p, status) ==
  /\ providers[p].probe = "abandoned" /\ providers[p].late = "none"
  /\ providers' = [providers EXCEPT ![p].late = status]
  /\ UNCHANGED <<instance, getters, created, hostVars, synths, engineVars, playVars>>

\* the voices are loaded: initialize() of the local provider returns, so does
\* createInstance, and getInstance caches the provider and returns it
LocalInitOk(g) ==
  /\ getters[g].pc = "local"
  /\ LET p == getters[g].prov
     IN /\ providers' = [providers EXCEPT ![p].isInitialized = TRUE]
        /\ instance' = p
        /\ getters' = [getters EXCEPT ![g].pc = "done",
                                      ![g].result = [tag |-> "resolved", prov |-> p]]
        /\ NoteHandout(p)
  /\ UNCHANGED <<hostVars, synths, engineVars, playVars>>

\* the caller has consumed the promise of getInstance
GetInstanceReturn(g) ==
  /\ getters[g].pc = "done"
  /\ getters' = [getters EXCEPT ![g] = IdleGetter]
  /\ UNCHANGED <<instance, providers, created, hostVars, synths, engineVars, playVars>>

\* variant: reset() cleans the provider up but keeps it cached
ResetKeepsCache ==
  /\ IF instance # NoProvider
     THEN providers' = [providers EXCEPT ![instance] = cleanup(@)]
     ELSE UNCHANGED providers
  /\ created' = [runs |-> 0, resolved |-> {}]
  /\ UNCHANGED <<instance, getters, hostVars, synths, engineVars, playVars>>

\* TTSServiceFactory.reset()
Reset ==
  /\ IF instance # NoProvider
     THEN /\ providers' = [providers EXCEPT ![instance] = cleanup(@)]
          /\ instance' = NoProvider
     ELSE UNCHANGED <<instance, providers>>
  /\ created' = [runs |-> 0, resolved |-> {}]
  /\ UNCHANGED <<getters, hostVars, synths, engineVars, playVars>>

\* close() of a stopped context has resolved: audioContext = null
ContextClosed(p) ==
  /\ providers[p].ctx = "closed"
  /\ providers' = [providers EXCEPT ![p].ctx = "null"]
  /\ UNCHANGED <<instance, getters, created, hostVars, synths, engineVars, playVars>>

(* ---------------- synthesis ---------------- *)
NoAudio == [byteLength |-> 0, header |-> <<>>]
NoSynthResult ==
  [tag |-> "pending", why |-> "none", audio |-> NoAudio, sampleRate |-> 0,
   channels |-> 0]
IdleSynth ==
  [pc |-> "idle", prov |-> NoProvider, text |-> NoText, call |-> 0,
   result |-> NoSynthResult,
   generated |-> 0]        \* history: runs of generateMockAudio in this call

SynthRejected(why) == [NoSynthResult EXCEPT !.tag = "rejected", !.why = why]
SynthResolved(audio) ==
  [tag |-> "resolved", why |-> "none", audio |-> audio,
   sampleRate |-> sampleRate, channels |-> 1]

\* variant: a text of exactly 5000 characters is refused
validateOptionsExclusive(t) ==
  IF t.words = 0 THEN "Text cannot be empty"
  ELSE IF t.length >= maxTextLength THEN "Text too long"
  ELSE "ok"

\* validateOptions: text.trim().length === 0, then text.length > 5000
validateOptions(t) ==
  IF t.words = 0 THEN "Text cannot be empty"
  ELSE IF t.length > maxTextLength THEN "Text too long"
  ELSE "ok"

\* text.split(/\s+/).length: leading and trailing whitespace each add an
\* empty piece, and the empty string splits into one empty piece
splitCount(t) ==
  IF t.length = 0 THEN 1
  ELSE t.words + (IF t.lead THEN 1 ELSE 0) + (IF t.trail THEN 1 ELSE 0)

\* Math.floor(sampleRate * ((n / 150) * 60)) in IEEE-754 doubles, for the
\* piece counts n <= 30: the product falls just short of 8820 * n for four
\* of them
numSamples(n) ==
  (sampleRate * 60 * n) \div 150 - (IF n \in {9, 18, 23, 27} THEN 1 ELSE 0)

\* DataView.setUintN(_, v, true): the low w bytes of v, least significant first
littleEndian(v, w) == [i \in 1..w |-> (v \div Pow(256, i - 1)) % 256]
\* DataView.getUintN(off, true) on byte sequence h (off counts from 0)
getUint(h, off, w) ==
  LET RECURSIVE sum(_)
      sum(i) == IF i > w THEN 0 ELSE h[off + i] * Pow(256, i - 1) + sum(i + 1)
  IN sum(1)

\* variant: the RIFF size field holds the length of the whole file
encodeWAVWholeFile(n, rate) ==
  [byteLength |-> 44 + n * 2,
   header |-> <<82, 73, 70, 70>> \o littleEndian(44 + n * 2, 4)
              \o <<87, 65, 86, 69>> \o <<102, 109, 116, 32>>
              \o littleEndian(16, 4) \o littleEndian(1, 2) \o littleEndian(1, 2)
              \o littleEndian(rate, 4) \o littleEndian(rate * 2, 4)
              \o littleEndian(2, 2) \o littleEndian(16, 2)
              \o <<100, 97, 116, 97>> \o littleEndian(n * 2, 4)]

\* encodeWAV(samples, sampleRate) with samples.length = n: the buffer's length
\* and its 44 header bytes ('RIFF', 'WAVE', 'fmt ', 'data' as character codes)
encodeWAV(n, rate) ==
  [byteLength |-> 44 + n * 2,
   header |-> <<82, 73, 70, 70>> \o littleEndian(36 + n * 2, 4)
              \o <<87, 65, 86, 69>> \o <<102, 109, 116, 32>>
              \o littleEndian(16, 4) \o littleEndian(1, 2) \o littleEndian(1, 2)
              \o littleEndian(rate, 4) \o littleEndian(rate * 2, 4)
              \o littleEndian(2, 2) \o littleEndian(16, 2)
              \o <<100, 97, 116, 97>> \o littleEndian(n * 2, 4)]

\* generateMockAudio(options)
generateMockAudio(t) == encodeWAV(numSamples(splitCount(t)), sampleRate)

\* the bytes a resolved speech request carries: a well-formed file or not
networkAudio(v) ==
  IF v = "v1" THEN encodeWAV(2, sampleRate)
  ELSE [byteLength |-> 3, header |-> <<1, 2, 3>>]

\* variant: the text is validated before the provider's state is looked at,
\* and an unavailable provider sends the request all the same
ServerSynthesizeUnguarded(s, p, t, c) ==
  /\ synths[s].pc = "idle"
  /\ providers[p].kind = "server"
  /\ IF validateOptions(t) # "ok"
     THEN /\ synths' = [synths EXCEPT ![s] =
                 [IdleSynth EXCEPT !.pc = "done", !.prov = p, !.text = t,
                    !.result = SynthRejected(validateOptions(t))]]
          /\ UNCHANGED engineVars
     ELSE /\ generateSpeech(c)
          /\ synths' = [synths EXCEPT ![s] =
                 [IdleSynth EXCEPT !.pc = "await", !.prov = p, !.text = t,
                                   !.call = c]]
          /\ UNCHANGED supplied
  /\ UNCHANGED <<instance, providers, getters, created, speechApi, adapter, playVars>>

\* ServerTTSService.synthesize up to its await: the three checks, then
\* NLPClient.generateSpeech enters withRetry, which sends the first request
ServerSynthesize(s, p, t, c) ==
  /\ synths[s].pc = "idle"
  /\ providers[p].kind = "server"
  /\ LET refusal ==
           IF ~providers[p].isInitialized THEN "TTS service not initialized"
           ELSE IF ~providers[p].serverAvailable THEN "Server is not available"
           ELSE validateOptions(t)
     IN IF refusal # "ok"
        THEN /\ synths' = [synths EXCEPT ![s] =
                    [IdleSynth EXCEPT !.pc = "done", !.prov = p, !.text = t,
                                      !.result = SynthRejected(refusal)]]
             /\ UNCHANGED engineVars
        ELSE /\ generateSpeech(c)
             /\ synths' = [synths EXCEPT ![s] =
                    [IdleSynth EXCEPT !.pc = "await", !.prov = p, !.text = t,
                                      !.call = c]]
             /\ UNCHANGED supplied
  /\ UNCHANGED <<instance, providers, getters, created, speechApi, adapter, playVars>>

\* withRetry has settled: generateSpeech and synthesize pass the bytes, or
\* the error, on to the caller
ServerSynthesizeSettles(s) ==
  /\ synths[s].pc = "await"
  /\ LET c == synths[s].call
     IN /\ calls[c].pc = "done"
        /\ synths' = [synths EXCEPT ![s].pc = "done", ![s].result =
               IF calls[c].result.tag = "resolved"
               THEN SynthResolved(networkAudio(calls[c].result.cause))
               ELSE SynthRejected(calls[c].result.code)]
        /\ calls' = [calls EXCEPT ![c] = IdleCall]
  /\ UNCHANGED <<now, circuits, failRun, supplied, instance, providers, getters,
                 created, hostVars, playVars>>

\* variant: the counter is decremented at the end of the try block, not in a
\* finally block
MockSynthesizeNoFinally(s, p, t) ==
  /\ synths[s].pc = "idle"
  /\ providers[p].kind = "mock"
  /\ LET me == [IdleSynth EXCEPT !.prov = p, !.text = t]
     IN synths' = [synths EXCEPT ![s] =
          IF ~providers[p].isInitialized
          THEN [me EXCEPT !.pc = "done",
                          !.result = SynthRejected("TTS service not initialized")]
          ELSE IF validateOptions(t) # "ok"
          THEN [me EXCEPT !.pc = "done", !.result = SynthRejected("SYNTHESIS_FAILED")]
          ELSE [me EXCEPT !.pc = "yield", !.generated = 1]]
  /\ providers' = [providers EXCEPT ![p].activeRequests =
                     IF providers[p].isInitialized THEN @ + 1 ELSE @]
  /\ UNCHANGED <<instance, getters, created, speechApi, adapter, engineVars, playVars>>

\* MockTTSService.synthesize up to its await: the initialization check, then
\* activeRequests is incremented; a text that fails validation is thrown,
\* caught and rethrown as an ITTSError and the finally block decrements the
\* counter, all before the call returns; otherwise generateMockAudio runs
\* and the call waits for the promise it returned
MockSynthesize(s, p, t) ==
  /\ synths[s].pc = "idle"
  /\ providers[p].kind = "mock"
  /\ LET me == [IdleSynth EXCEPT !.prov = p, !.text = t]
         refused == ~providers[p].isInitialized
         invalid == validateOptions(t) # "ok"
     IN /\ synths' = [synths EXCEPT ![s] =
             IF refused
             THEN [me EXCEPT !.pc = "done",
                             !.result = SynthRejected("TTS service not initialized")]
             ELSE IF invalid
             THEN [me EXCEPT !.pc = "done", !.result = SynthRejected("SYNTHESIS_FAILED")]
             ELSE [me EXCEPT !.pc = "yield", !.generated = 1]]
        /\ providers' = [providers EXCEPT ![p].activeRequests =
                           IF refused THEN @
                           ELSE IF invalid THEN (@ + 1) - 1
                           ELSE @ + 1]
  /\ UNCHANGED <<instance, getters, created, speechApi, adapter, engineVars, playVars>>

\* the call goes on after its await: the result is built and returned, and
\* the finally block decrements activeRequests
MockSynthesizeSettles(s) ==
  /\ synths[s].pc = "yield"
  /\ synths' = [synths EXCEPT ![s].pc = "done",
                 ![s].result = SynthResolved(generateMockAudio(synths[s].text))]
  /\ providers' = [providers EXCEPT ![synths[s].prov].activeRequests = @ - 1]
  /\ UNCHANGED <<instance, getters, created, hostVars, engineVars, playVars>>

\* the caller has consumed the promise of synthesize
SynthesizeReturn(s) ==
  /\ synths[s].pc = "done"
  /\ synths' = [synths EXCEPT ![s] = IdleSynth]
  /\ UNCHANGED <<instance, providers, getters, created, hostVars, engineVars, playVars>>

(* ---------------- playback: TTSService.play ---------------- *)
\* an Error object as thrown, and the new Error(message) made from it
Thrown(e) == [message |-> e, fresh |-> FALSE]
NewError(e) == [message |-> e, fresh |-> TRUE]
NoError == [message |-> "none", fresh |-> FALSE]

\* variant: the caller's own buffer is handed over and comes back detached
handOriginal(rs, v) == [handed |-> rs[v], results |-> [rs EXCEPT ![v] = NoAudio]]

\* decodeAudioData(result.audioData.slice(0)): the decoder detaches the
\* buffer it is handed, which is a copy; the caller's buffer stays as it is
handToDecoder(rs, v) == [handed |-> rs[v], results |-> rs]

IdleSession ==
  [pc |-> "idle", prov |-> NoProvider,
   source |-> Undefined,   \* which of the callers' results is played
   audio |-> NoAudio,      \* the bytes handed to decodeAudioData
   loop |-> FALSE, hasOnEnd |-> FALSE, hasOnError |-> FALSE,
   sourceConnected |-> FALSE, gainConnected |-> FALSE,
   promise |-> "pending", error |-> NoError,
   \* history, read by the properties only
   cause |-> "none",       \* what made the session fail
   stopped |-> "none",     \* where the session was when stop() was called
   log |-> <<>>]           \* callbacks and settlements, in the order they happen

Event(what, e) == [what |-> what, error |-> e]

\* decodeAudioData accepts a buffer that starts with a well-formed header
Decodable(a) ==
  /\ Len(a.header) = 44
  /\ SubSeq(a.header, 1, 4) = <<82, 73, 70, 70>>
  /\ a.byteLength > 44

\* values that are thrown: AppError and Error objects, and values that are
\* no Error at all
ThrownValue(type, code, message, num) ==
  [type |-> type, code |-> code, message |-> message, num |-> num]
AppErrorObject(code, m) == ThrownValue("AppError", code, m, 0)
ErrorObject(m) == ThrownValue("Error", "none", m, 0)
StringValue(m) == ThrownValue("string", "none", m, 0)
NumberValue(n) == ThrownValue("number", "none", "none", n)
NullValue == ThrownValue("null", "none", "none", 0)
UndefinedValue == ThrownValue("undefined", "none", "none", 0)
PlainObject == ThrownValue("object", "none", "none", 0)
ThrownValues ==
  { AppErrorObject("NETWORK_ERROR", "e1"), AppErrorObject("UNKNOWN_ERROR", "e2"),
    ErrorObject("e1"), StringValue("e1"), NumberValue(42), NumberValue(0 - 7),
    NullValue, UndefinedValue, PlainObject }

\* options.severity, or NoSeverity where the options name none
NoSeverity == "none"
SeverityChoices == {NoSeverity, "LOW", "MEDIUM", "CRITICAL"}

Digit(d) ==
  CASE d = 0 -> "0" [] d = 1 -> "1" [] d = 2 -> "2" [] d = 3 -> "3" [] d = 4 -> "4"
    [] d = 5 -> "5" [] d = 6 -> "6" [] d = 7 -> "7" [] d = 8 -> "8" [] d = 9 -> "9"

RECURSIVE Decimal(_)
Decimal(n) == IF n < 10 THEN Digit(n) ELSE Decimal(n \div 10) \o Digit(n % 10)

\* String(error) for a value that is no Error
String(error) ==
  CASE error.type = "string" -> error.message
    [] error.type = "number" ->
         IF error.num < 0 THEN "-" \o Decimal(0 - error.num) ELSE Decimal(error.num)
    [] error.type = "null" -> "null"
    [] error.type = "undefined" -> "undefined"
    [] error.type = "object" -> "[object Object]"

NoRecord ==
  [id |-> 0, code |-> "none", message |-> "none", severity |-> "none",
   context |-> NoKey, originalError |-> UndefinedValue]

\* variant: a value that is no Error is given the default severity of the
\* Error branches
processErrorOneDefault(id, error, context, severity) ==
  [id |-> id,
   code |-> IF error.type = "AppError" THEN error.code ELSE "UNKNOWN_ERROR",
   message |-> IF error.type \in {"AppError", "Error"} THEN error.message
               ELSE String(error),
   severity |-> IF severity # NoSeverity THEN severity ELSE "MEDIUM",
   context |-> context,
   originalError |-> error]

\* ErrorHandler.processError(error, {context, severity}): the three branches
\* for an AppError, any other Error and a value that is no Error
processError(id, error, context, severity) ==
  [id |-> id,
   code |-> IF error.type = "AppError" THEN error.code ELSE "UNKNOWN_ERROR",
   message |-> IF error.type \in {"AppError", "Error"} THEN error.message
               ELSE String(error),
   severity |-> IF severity # NoSeverity THEN severity
                ELSE IF error.type \in {"AppError", "Error"} THEN "MEDIUM"
                ELSE "LOW",
   context |-> context,
   originalError |-> error]

\* variant: room is made only once the history holds more than maxHistorySize
addToHistoryLate(h, processed) ==
  Append(IF Len(h) > maxHistorySize THEN Tail(h) ELSE h, processed)

addToHistory(h, processed) ==
  Append(IF Len(h) >= maxHistorySize THEN Tail(h) ELSE h, processed)

\* the history after handleError: the processed error is appended, the
\* oldest entry making room once maxHistorySize entries are held
handleError(h, id, error, context, severity) ==
  addToHistory(h, processError(id, error, context, severity))

\* a limit that was not passed
NoLimit == 0 - 1
Limits == {NoLimit, 0, 1, 2, maxHistorySize}

\* [...errorHistory].reverse(), cut to its first limit entries if a limit
\* was passed
getErrorHistory(h, limit) ==
  LET errors == [i \in 1..Len(h) |-> h[Len(h) + 1 - i]]
  IN IF limit # NoLimit /\ limit < Len(h) THEN SubSeq(errors, 1, limit) ELSE errors

\* variant: an error that is handled counts as a failure of the circuit
\* named by its context
HandleErrorTripsCircuit(error, context, severity) ==
  /\ handled < MaxHandled
  /\ errorHistory' = handleError(errorHistory, handled + 1, error, context, severity)
  /\ returned' = processError(handled + 1, error, context, severity)
  /\ handled' = handled + 1
  /\ view' = <<>>
  /\ circuits' = recordFailure(circuits, context, now)
  /\ UNCHANGED <<now, calls, failRun, supplied, sessions, results, ttsVars>>

\* handleError is called with a thrown value by any part of the program
HandleError(error, context, severity) ==
  /\ handled < MaxHandled
  /\ errorHistory' = handleError(errorHistory, handled + 1, error, context, severity)
  /\ returned' = processError(handled + 1, error, context, severity)
  /\ handled' = handled + 1
  /\ view' = <<>>
  /\ UNCHANGED <<sessions, results, ttsVars, engineVars>>

GetErrorHistory(limit) ==
  /\ view' = getErrorHistory(errorHistory, limit)
  /\ UNCHANGED <<errorHistory, handled, returned, sessions, results, ttsVars,
                 engineVars>>

ClearHistory ==
  /\ errorHistory' = <<>>
  /\ view' = <<>>
  /\ UNCHANGED <<handled, returned, sessions, results, ttsVars, engineVars>>

\* the catch block of play: the error is handed to the error handler and a
\* new Error with its message is thrown
playCatch(x, e, why) ==
  /\ Len(errorHistory) < MaxErrors
  /\ errorHistory' = handleError(errorHistory, handled + 1, ErrorObject(e),
                                 "TTSService.play", "MEDIUM")
  /\ returned' = processError(handled + 1, ErrorObject(e), "TTSService.play", "MEDIUM")
  /\ handled' = handled + 1
  /\ view' = <<>>
  /\ sessions' = [sessions EXCEPT ![x].pc = "failed", ![x].promise = "rejected",
                    ![x].error = NewError(e), ![x].cause = why,
                    ![x].log = Append(@, Event("reject", NewError(e)))]

\* calls of play that have not settled
InFlight == Cardinality({y \in Sessions : sessions[y].pc \in {"resume", "decode", "playing"}})

\* variant: a new call of play ends the sessions that play on the provider
PlayStartExclusive(x, p, v, st, lp, oe, oerr) ==
  /\ sessions[x].pc = "idle"
  /\ \A y \in Sessions : y < x => sessions[y].pc # "idle"
  /\ Len(errorHistory) + InFlight < MaxErrors
  /\ providers[p].kind # "none"
  /\ LET ctx == IF providers[p].ctx = "null" THEN st ELSE providers[p].ctx
         me == [IdleSession EXCEPT !.prov = p, !.source = v, !.loop = lp,
                                   !.hasOnEnd = oe, !.hasOnError = oerr]
         d == handToDecoder(results, v)
         others == [y \in Sessions |->
                      IF sessions[y].prov = p /\ sessions[y].pc = "playing"
                      THEN [sessions[y] EXCEPT !.pc = "ended", !.promise = "resolved",
                              !.sourceConnected = FALSE, !.gainConnected = FALSE,
                              !.log = Append(@, Event("resolve", NoError))]
                      ELSE sessions[y]]
     IN /\ providers' = [providers EXCEPT ![p].ctx = ctx]
        /\ IF ctx = "suspended"
           THEN /\ sessions' = [others EXCEPT ![x] = [me EXCEPT !.pc = "resume"]]
                /\ UNCHANGED results
           ELSE /\ sessions' = [others EXCEPT ![x] =
                                  [me EXCEPT !.pc = "decode", !.audio = d.handed]]
                /\ results' = d.results
  /\ UNCHANGED <<historyVars, instance, getters, created, hostVars, synths, engineVars>>

\* play(result, options) is called on provider object p: the context is
\* created if there is none, then play waits for resume() if the context is
\* suspended and for decodeAudioData otherwise
PlayStart(x, p, v, st, lp, oe, oerr) ==
  /\ sessions[x].pc = "idle"
  /\ \A y \in Sessions : y < x => sessions[y].pc # "idle"
  /\ Len(errorHistory) + InFlight < MaxErrors
  /\ providers[p].kind # "none"
  /\ LET ctx == IF providers[p].ctx = "null" THEN st ELSE providers[p].ctx
         me == [IdleSession EXCEPT !.prov = p, !.source = v, !.loop = lp,
                                   !.hasOnEnd = oe, !.hasOnError = oerr]
         d == handToDecoder(results, v)
     IN /\ providers' = [providers EXCEPT ![p].ctx = ctx]
        /\ IF ctx = "suspended"
           THEN /\ sessions' = [sessions EXCEPT ![x] = [me EXCEPT !.pc = "resume"]]
                /\ UNCHANGED results
           ELSE /\ sessions' = [sessions EXCEPT ![x] =
                                  [me EXCEPT !.pc = "decode", !.audio = d.handed]]
                /\ results' = d.results
  /\ UNCHANGED <<historyVars, instance, getters, created, hostVars, synths, engineVars>>

\* resume() has resolved; decodeAudioData is called on this.audioContext,
\* which throws if stop() has cleared the field in the meantime
ResumeOk(x) ==
  /\ sessions[x].pc = "resume"
  /\ LET p == sessions[x].prov
         d == handToDecoder(results, sessions[x].source)
     IN IF providers[p].ctx = "null"
        THEN /\ playCatch(x, "TypeError", "context")
             /\ UNCHANGED <<providers, results>>
        ELSE /\ providers' = [providers EXCEPT ![p].ctx =
                                IF @ = "suspended" THEN "running" ELSE @]
             /\ sessions' = [sessions EXCEPT ![x].pc = "decode", ![x].audio = d.handed]
             /\ results' = d.results
             /\ UNCHANGED historyVars
  /\ UNCHANGED <<instance, getters, created, hostVars, synths, engineVars>>

\* resume() rejects: the context was closed in the meantime
ResumeFails(x, e) ==
  /\ sessions[x].pc = "resume"
  /\ providers[sessions[x].prov].ctx \in {"closed", "null"}
  /\ playCatch(x, e, "resume")
  /\ UNCHANGED <<results, ttsVars, engineVars>>

\* decodeAudioData rejects
DecodeFails(x, e) ==
  /\ sessions[x].pc = "decode"
  /\ ~Decodable(sessions[x].audio)
  /\ playCatch(x, e, "decode")
  /\ UNCHANGED <<results, ttsVars, engineVars>>

\* the graph that play builds once the bytes are decoded
Wired(x) == [sessions[x] EXCEPT !.sourceConnected = TRUE, !.gainConnected = TRUE]

\* decodeAudioData resolves but stop() has cleared this.audioContext in the
\* meantime: createBufferSource is called on null
DecodeOkNoContext(x) ==
  /\ sessions[x].pc = "decode"
  /\ Decodable(sessions[x].audio)
  /\ providers[sessions[x].prov].ctx = "null"
  /\ playCatch(x, "TypeError", "context")
  /\ UNCHANGED <<results, ttsVars, engineVars>>

\* decodeAudioData resolves, the graph is built and source.start(0) returns
DecodeOkStarts(x) ==
  /\ sessions[x].pc = "decode"
  /\ Decodable(sessions[x].audio)
  /\ providers[sessions[x].prov].ctx # "null"
  /\ sessions' = [sessions EXCEPT ![x] = [Wired(x) EXCEPT !.pc = "playing"]]
  /\ UNCHANGED <<historyVars, results, ttsVars, engineVars>>

\* variant: the promise is rejected with a new Error made from the message
DecodeOkStartThrowsRewrapped(x, e) ==
  /\ sessions[x].pc = "decode"
  /\ Decodable(sessions[x].audio)
  /\ providers[sessions[x].prov].ctx # "null"
  /\ sessions' = [sessions EXCEPT ![x] =
       [Wired(x) EXCEPT !.pc = "failed", !.cause = "start",
          !.sourceConnected = FALSE, !.gainConnected = FALSE,
          !.promise = "rejected", !.error = NewError(e),
          !.log = @ \o <<Event("source.disconnect", NoError),
                         Event("gain.disconnect", NoError)>>
                    \o (IF sessions[x].hasOnError
                        THEN <<Event("onError", Thrown(e))>> ELSE <<>>)
                    \o <<Event("reject", NewError(e))>>]]
  /\ UNCHANGED <<historyVars, results, ttsVars, engineVars>>

\* decodeAudioData resolves, the graph is built and source.start(0) throws
\* the Error e: errorCallback runs inside the promise's executor
DecodeOkStartThrows(x, e) ==
  /\ sessions[x].pc = "decode"
  /\ Decodable(sessions[x].audio)
  /\ providers[sessions[x].prov].ctx # "null"
  /\ sessions' = [sessions EXCEPT ![x] =
       [Wired(x) EXCEPT !.pc = "failed", !.cause = "start",
          !.sourceConnected = FALSE, !.gainConnected = FALSE,
          !.promise = "rejected", !.error = Thrown(e),
          !.log = @ \o <<Event("source.disconnect", NoError),
                         Event("gain.disconnect", NoError)>>
                    \o (IF sessions[x].hasOnError
                        THEN <<Event("onError", Thrown(e))>> ELSE <<>>)
                    \o <<Event("reject", Thrown(e))>>]]
  /\ UNCHANGED <<historyVars, results, ttsVars, engineVars>>

\* variant: the promise is resolved before options.onEnd is called
SourceEndedResolvesFirst(x) ==
  /\ sessions[x].pc = "playing"
  /\ ~sessions[x].loop
  /\ sessions' = [sessions EXCEPT ![x].pc = "ended",
       ![x].sourceConnected = FALSE, ![x].gainConnected = FALSE,
       ![x].promise = "resolved",
       ![x].log = @ \o <<Event("source.disconnect", NoError),
                         Event("gain.disconnect", NoError)>>
                    \o <<Event("resolve", NoError)>>
                    \o (IF sessions[x].hasOnEnd
                        THEN <<Event("onEnd", NoError)>> ELSE <<>>)]
  /\ UNCHANGED <<historyVars, results, ttsVars, engineVars>>

\* source.onended: a source that does not loop has played to its end
SourceEnded(x) ==
  /\ sessions[x].pc = "playing"
  /\ ~sessions[x].loop
  /\ sessions' = [sessions EXCEPT ![x].pc = "ended",
       ![x].sourceConnected = FALSE, ![x].gainConnected = FALSE,
       ![x].promise = "resolved",
       ![x].log = @ \o <<Event("source.disconnect", NoError),
                         Event("gain.disconnect", NoError)>>
                    \o (IF sessions[x].hasOnEnd
                        THEN <<Event("onEnd", NoError)>> ELSE <<>>)
                    \o <<Event("resolve", NoError)>>]
  /\ UNCHANGED <<historyVars, results, ttsVars, engineVars>>

\* the caller has consumed the settled promise of play
PlayReturn(x) ==
  /\ sessions[x].pc \in {"ended", "failed"}
  /\ sessions' = [sessions EXCEPT ![x] = IdleSession]
  /\ UNCHANGED <<historyVars, results, ttsVars, engineVars>>

\* stop() is called on provider object p
Stop(p) ==
  /\ providers[p].ctx \notin {"null", "closed"}
  /\ providers' = [providers EXCEPT ![p] = stop(@)]
  /\ sessions' = [x \in Sessions |->
       IF sessions[x].prov = p /\ sessions[x].pc \in {"resume", "decode", "playing"}
          /\ sessions[x].stopped = "none"
       THEN [sessions[x] EXCEPT !.stopped = sessions[x].pc]
       ELSE sessions[x]]
  /\ UNCHANGED <<instance, getters, created, hostVars, synths, engineVars,
                 results, historyVars>>

(* ---------------- the speech adapter ---------------- *)
IdleSpeak ==
  [pc |-> "idle",
   synth |-> 0,          \* the call of tts.synthesize this call of speak made
   session |-> 0,        \* the call of tts.play its then-callback made
   original |-> <<>>]    \* history: the utterances it handed to originalSpeak

\* the load handler has its provider and window.speechSynthesis exists: the
\* original speak is kept and speak is replaced
AdapterInstall(g) ==
  /\ adapter = NoProvider
  /\ speechApi
  /\ getters[g].pc = "done"
  /\ getters[g].result.tag = "resolved"
  /\ adapter' = getters[g].result.prov
  /\ getters' = [getters EXCEPT ![g] = IdleGetter]
  /\ UNCHANGED <<speechApi, speaks, instance, providers, created, synths,
                 engineVars, playVars>>

\* the host calls the patched speak(utterance): tts.synthesize is called
\* with the utterance's text and runs up to its first await, the two
\* callbacks are attached to its promise and speak returns
PatchedSpeak(u, t, s, c) ==
  /\ adapter # NoProvider
  /\ speaks[u].pc = "idle"
  /\ \/ ServerSynthesize(s, adapter, t, c)
     \/ MockSynthesize(s, adapter, t)
  /\ speaks' = [speaks EXCEPT ![u] = [IdleSpeak EXCEPT !.pc = "synth", !.synth = s]]

\* the promise of synthesize has resolved: the then-callback calls
\* tts.play(result) without options, which runs up to its first await as
\* PlayStart does
SpeakThen(u, x, st) ==
  /\ speaks[u].pc = "synth"
  /\ synths[speaks[u].synth].pc = "done"
  /\ synths[speaks[u].synth].result.tag = "resolved"
  /\ sessions[x].pc = "idle"
  /\ \A y \in Sessions : y < x => sessions[y].pc # "idle"
  /\ Len(errorHistory) + InFlight < MaxErrors
  /\ LET s == speaks[u].synth
         p == adapter
         ctx == IF providers[p].ctx = "null" THEN st ELSE providers[p].ctx
         me == [IdleSession EXCEPT !.prov = p, !.source = u]
         held == [results EXCEPT ![u] = synths[s].result.audio]
         d == handToDecoder(held, u)
     IN /\ providers' = [providers EXCEPT ![p].ctx = ctx]
        /\ IF ctx = "suspended"
           THEN /\ sessions' = [sessions EXCEPT ![x] = [me EXCEPT !.pc = "resume"]]
                /\ results' = held
           ELSE /\ sessions' = [sessions EXCEPT ![x] =
                                  [me EXCEPT !.pc = "decode", !.audio = d.handed]]
                /\ results' = d.results
        /\ synths' = [synths EXCEPT ![s] = IdleSynth]
        /\ speaks' = [speaks EXCEPT ![u].pc = "play", ![u].session = x]
  /\ UNCHANGED <<historyVars, instance, getters, created, speechApi, adapter,
                 engineVars>>

\* the promise of synthesize has rejected: the then-callback is skipped and
\* the catch-callback hands the utterance to the original speak
SpeakCatchSynthesize(u) ==
  /\ speaks[u].pc = "synth"
  /\ synths[speaks[u].synth].pc = "done"
  /\ synths[speaks[u].synth].result.tag = "rejected"
  /\ synths' = [synths EXCEPT ![speaks[u].synth] = IdleSynth]
  /\ speaks' = [speaks EXCEPT ![u].pc = "done", ![u].original = Append(@, u)]
  /\ UNCHANGED <<speechApi, adapter, instance, providers, getters, created,
                 engineVars, playVars>>

\* variant: the catch-callback is attached to the promise of synthesize
\* only, so a rejection of play reaches nobody
SpeakPlaySettledUncaught(u) ==
  /\ speaks[u].pc = "play"
  /\ sessions[speaks[u].session].pc \in {"ended", "failed"}
  /\ sessions' = [sessions EXCEPT ![speaks[u].session] = IdleSession]
  /\ speaks' = [speaks EXCEPT ![u].pc = "done"]
  /\ UNCHANGED <<speechApi, adapter, instance, providers, getters, created, synths,
                 engineVars, results, historyVars>>

\* the promise of play has settled: nothing more happens if it resolved, and
\* the catch-callback hands the utterance to the original speak if it
\* rejected
SpeakPlaySettled(u) ==
  /\ speaks[u].pc = "play"
  /\ sessions[speaks[u].session].pc \in {"ended", "failed"}
  /\ sessions' = [sessions EXCEPT ![speaks[u].session] = IdleSession]
  /\ speaks' = [speaks EXCEPT ![u].pc = "done", ![u].original =
                 IF sessions[speaks[u].session].promise = "rejected"
                 THEN Append(@, u) ELSE @]
  /\ UNCHANGED <<speechApi, adapter, instance, providers, getters, created, synths,
                 engineVars, results, historyVars>>

Init ==
  /\ now = Epoch
  /\ circuits = [k \in Keys |-> NoCircuit]
  /\ calls = [c \in Calls |-> IdleCall]
  /\ failRun = [k \in Keys |-> 0]
  /\ supplied = [c \in Calls |-> NoOptions]
  /\ instance = NoProvider
  /\ providers = [p \in ProviderIds |-> NoProviderObject]
  /\ getters = [g \in Getters |-> IdleGetter]
  /\ created = [runs |-> 0, resolved |-> {}]
  /\ speechApi \in BOOLEAN
  /\ synths = [s \in Synths |-> IdleSynth]
  /\ sessions = [x \in Sessions |-> IdleSession]
  /\ results = [v \in Values \cup Utterances |->
                  IF v \in Values THEN networkAudio(v) ELSE NoAudio]
  /\ adapter = NoProvider
  /\ speaks = [u \in Utterances |-> IdleSpeak]
  /\ errorHistory = <<>>
  /\ handled = 0
  /\ view = <<>>
  /\ returned = NoRecord

Next ==
  \/ \E c \in Calls, k \in SharedKeys, mr \in SharedMaxRetries, bd \in SharedRetryDelays :
        WithRetryStart(c, k, mr, bd)
  \/ \E c \in Calls, v \in Values : WithRetrySuccess(c, v)
  \/ \E c \in Calls, e \in Errors : WithRetryFailure(c, e)
  \/ \E c \in Calls : WithRetryWake(c)
  \/ \E c \in Calls, k \in SharedKeys : WithCircuitBreakerStart(c, k)
  \/ \E c \in Calls, v \in Values : WithCircuitBreakerSuccess(c, v)
  \/ \E c \in Calls, e \in Errors : WithCircuitBreakerFailure(c, e)
  \/ \E c \in Calls : Return(c)
  \/ \E d \in SharedTicks : Tick(d)

Spec == Init /\ [][Next]_vars

\* callers that use withCircuitBreaker only
BreakerNext ==
  \/ \E c \in Calls, k \in SharedKeys : WithCircuitBreakerStart(c, k)
  \/ \E c \in Calls, v \in Values : WithCircuitBreakerSuccess(c, v)
  \/ \E c \in Calls, e \in Errors : WithCircuitBreakerFailure(c, e)
  \/ \E c \in Calls : Return(c)
  \/ \E d \in SharedTicks : Tick(d)

BreakerSpec == Init /\ [][BreakerNext]_vars

RetryNext ==
  \/ \E c \in SoloCalls, k \in ClientKeys, mr \in MaxRetriesChoices, bd \in RetryDelayChoices :
        WithRetryStart(c, k, mr, bd)
  \/ \E c \in SoloCalls, v \in Values : WithRetrySuccess(c, v)
  \/ \E c \in SoloCalls, e \in Errors : WithRetryFailure(c, e)
  \/ \E c \in SoloCalls : WithRetryWake(c)
  \/ \E c \in SoloCalls : Return(c)
  \/ \E d \in ClientTicks : Tick(d)

RetrySpec == Init /\ [][RetryNext]_vars

\* one caller of withRetry with any number of attempts, zero and negative
\* numbers included
BoundedNext ==
  \/ \E c \in SoloCalls, k \in ClientKeys, mr \in AttemptChoices, bd \in SharedRetryDelays :
        WithRetryStart(c, k, mr, bd)
  \/ \E c \in SoloCalls, v \in SoloValues : WithRetrySuccess(c, v)
  \/ \E c \in SoloCalls, e \in SoloErrors : WithRetryFailure(c, e)
  \/ \E c \in SoloCalls : WithRetryWake(c)
  \/ \E c \in SoloCalls : Return(c)
  \/ \E d \in SharedTicks : Tick(d)

\* every invocation of the operation settles, and a timer that was set fires:
\* time passes while a call sleeps, and the call goes on when its delay is over
BoundedFairness ==
  \A c \in SoloCalls :
    /\ WF_vars(\/ \E v \in SoloValues : WithRetrySuccess(c, v)
               \/ \E e \in SoloErrors : WithRetryFailure(c, e))
    /\ WF_vars(WithRetryWake(c))
    /\ WF_vars(\E d \in SharedTicks :
                 Tick(d) /\ calls[c].pc = "sleep" /\ now < calls[c].wakeAt)

BoundedSpec == Init /\ [][BoundedNext]_vars /\ BoundedFairness

\* one caller at a time uses withRetry with options objects of its choice,
\* or withCircuitBreaker, which takes a circuit name and nothing else
OverrideNext ==
  \/ \E c \in SoloCalls, o \in OverrideOptions : WithRetryCall(c, o)
  \/ \E c \in SoloCalls, v \in SoloValues : WithRetrySuccess(c, v)
  \/ \E c \in SoloCalls, e \in SoloErrors : WithRetryFailure(c, e)
  \/ \E c \in SoloCalls : WithRetryWake(c)
  \/ \E c \in SoloCalls, k \in SharedKeys : WithCircuitBreakerStart(c, k)
  \/ \E c \in SoloCalls, v \in SoloValues : WithCircuitBreakerSuccess(c, v)
  \/ \E c \in SoloCalls, e \in SoloErrors : WithCircuitBreakerFailure(c, e)
  \/ \E c \in SoloCalls : Return(c)
  \/ \E d \in ClientTicks : Tick(d)

OverrideSpec == Init /\ [][OverrideNext]_vars

\* overlapping callers of the provider selector
SelectorNext ==
  \/ \E g \in Getters, p \in ProviderIds : GetInstanceStart(g, p)
  \/ \E g \in Getters, st \in HealthStatuses : RemoteInitOk(g, st)
  \/ \E g \in Getters, q \in ProviderIds : RemoteInitFails(g, q)
  \/ \E g \in Getters, q \in ProviderIds : RemoteInitTimeout(g, q)
  \/ \E g \in Getters : LocalInitOk(g)
  \/ \E g \in Getters : GetInstanceReturn(g)
  \/ Reset
  \/ \E d \in SelectorTicks : Tick(d)

SelectorSpec == Init /\ [][SelectorNext]_vars

\* one caller obtains a provider from the selector, may reset the selector,
\* and synthesizes on any provider object constructed so far; the remote
\* provider's requests go through withRetry under the key of
\* NLPClient.generateSpeech
SoloGetters == {1}
ProviderNext ==
  \/ \E g \in SoloGetters, p \in ProviderIds : GetInstanceStart(g, p)
  \/ \E g \in SoloGetters, st \in HealthStatuses : RemoteInitOk(g, st)
  \/ \E g \in SoloGetters, q \in ProviderIds : RemoteInitFails(g, q)
  \/ \E g \in SoloGetters, q \in ProviderIds : RemoteInitTimeout(g, q)
  \/ \E g \in SoloGetters : LocalInitOk(g)
  \/ Reset
  \/ \E s \in SoloSynths, p \in ProviderIds, t \in Texts, c \in SoloCalls :
        ServerSynthesize(s, p, t, c) /\ UNCHANGED speaks
  \/ \E c \in SoloCalls, v \in Values : WithRetrySuccess(c, v)
  \/ \E c \in SoloCalls, e \in SoloErrors : WithRetryFailure(c, e)
  \/ \E c \in SoloCalls : WithRetryWake(c)
  \/ \E s \in SoloSynths : ServerSynthesizeSettles(s)
  \/ \E s \in SoloSynths, p \in ProviderIds, t \in Texts : MockSynthesize(s, p, t) /\ UNCHANGED speaks
  \/ \E s \in SoloSynths : MockSynthesizeSettles(s)
  \/ \E s \in SoloSynths : SynthesizeReturn(s)
  \/ \E d \in SelectorTicks : Tick(d)

ProviderSpec == Init /\ [][ProviderNext]_vars

\* overlapping synthesize calls on the local provider the selector falls
\* back to
AccountingNext ==
  \/ \E g \in SoloGetters, p \in ProviderIds : GetInstanceStart(g, p)
  \/ \E g \in SoloGetters, q \in ProviderIds : RemoteInitFails(g, q)
  \/ \E g \in SoloGetters : LocalInitOk(g)
  \/ \E g \in SoloGetters : GetInstanceReturn(g)
  \/ Reset
  \/ \E s \in Synths, p \in ProviderIds, t \in Texts : MockSynthesize(s, p, t) /\ UNCHANGED speaks
  \/ \E s \in Synths : MockSynthesizeSettles(s)
  \/ \E s \in Synths : SynthesizeReturn(s)

AccountingSpec == Init /\ [][AccountingNext]_vars

\* the host speaks through the patched speak of the adapter, on the provider
\* the adapter obtained from the selector, with reset() at any moment; the
\* speech requests that are sent are answered, with bytes that decode or do
\* not, and synthesize rejects where the provider refuses the call
AdapterNext ==
  \/ \E g \in SoloGetters, p \in ProviderIds : GetInstanceStart(g, p)
  \/ \E g \in SoloGetters, st \in HealthStatuses : RemoteInitOk(g, st)
  \/ \E g \in SoloGetters, q \in ProviderIds : RemoteInitFails(g, q)
  \/ \E g \in SoloGetters : LocalInitOk(g)
  \/ \E g \in SoloGetters : AdapterInstall(g)
  \/ Reset
  \/ \E u \in Utterances, t \in AdapterTexts, s \in Synths, c \in SoloCalls :
        PatchedSpeak(u, t, s, c)
  \/ \E c \in SoloCalls, v \in Values : WithRetrySuccess(c, v)
  \/ \E s \in Synths : ServerSynthesizeSettles(s)
  \/ \E s \in Synths : MockSynthesizeSettles(s)
  \/ \E u \in Utterances, x \in SoloSessions, st \in NewContextStates : SpeakThen(u, x, st)
  \/ \E u \in Utterances : SpeakCatchSynthesize(u)
  \/ \E x \in SoloSessions : ResumeOk(x)
  \/ \E x \in SoloSessions, e \in PlayErrors : ResumeFails(x, e)
  \/ \E x \in SoloSessions, e \in PlayErrors : DecodeFails(x, e)
  \/ \E x \in SoloSessions : DecodeOkNoContext(x)
  \/ \E x \in SoloSessions : DecodeOkStarts(x)
  \/ \E x \in SoloSessions, e \in PlayErrors : DecodeOkStartThrows(x, e)
  \/ \E x \in SoloSessions : SourceEnded(x)
  \/ \E p \in ProviderIds : ContextClosed(p)
  \/ \E u \in Utterances : SpeakPlaySettled(u)

AdapterSpec == Init /\ [][AdapterNext]_vars

\* one caller of the selector, with health probes that answer in time, fail,
\* or answer after the timer
ProbeNext ==
  \/ \E g \in SoloGetters, p \in ProviderIds : GetInstanceStart(g, p)
  \/ \E g \in SoloGetters, st \in HealthStatuses : RemoteInitOk(g, st)
  \/ \E g \in SoloGetters, q \in ProviderIds : RemoteInitFails(g, q)
  \/ \E g \in SoloGetters, q \in ProviderIds : RemoteInitTimeout(g, q)
  \/ \E p \in ProviderIds, st \in HealthStatuses : LateProbeSettles(p, st)
  \/ \E g \in SoloGetters : LocalInitOk(g)
  \/ \E g \in SoloGetters : GetInstanceReturn(g)
  \/ Reset
  \/ \E d \in SelectorTicks : Tick(d)

ProbeSpec == Init /\ [][ProbeNext]_vars

\* one caller obtains a provider from the selector and plays on it, with
\* stop() and reset() at any moment
PlaybackNext ==
  \/ \E g \in SoloGetters, p \in ProviderIds : GetInstanceStart(g, p)
  \/ \E g \in SoloGetters, st \in HealthStatuses : RemoteInitOk(g, st)
  \/ Reset
  \/ \E x \in SoloSessions, p \in ProviderIds, v \in Values, st \in NewContextStates,
         lp, oe, oerr \in BOOLEAN : PlayStart(x, p, v, st, lp, oe, oerr)
  \/ \E x \in SoloSessions : ResumeOk(x)
  \/ \E x \in SoloSessions, e \in PlayErrors : ResumeFails(x, e)
  \/ \E x \in SoloSessions, e \in PlayErrors : DecodeFails(x, e)
  \/ \E x \in SoloSessions : DecodeOkNoContext(x)
  \/ \E x \in SoloSessions : DecodeOkStarts(x)
  \/ \E x \in SoloSessions, e \in PlayErrors : DecodeOkStartThrows(x, e)
  \/ \E x \in SoloSessions : SourceEnded(x)
  \/ \E x \in SoloSessions : PlayReturn(x)
  \/ \E p \in ProviderIds : Stop(p)
  \/ \E p \in ProviderIds : ContextClosed(p)

PlaybackSpec == Init /\ [][PlaybackNext]_vars

\* overlapping calls of play on the provider objects of one selection, every
\* call with both callbacks, with stop() at any moment
OverlapNext ==
  \/ \E g \in SoloGetters, p \in ProviderIds : GetInstanceStart(g, p)
  \/ \E x \in Sessions, p \in ProviderIds, v \in Values, st \in NewContextStates,
         lp \in BOOLEAN : PlayStart(x, p, v, st, lp, TRUE, TRUE)
  \/ \E x \in Sessions : ResumeOk(x)
  \/ \E x \in Sessions, e \in PlayErrors : ResumeFails(x, e)
  \/ \E x \in Sessions, e \in PlayErrors : DecodeFails(x, e)
  \/ \E x \in Sessions : DecodeOkNoContext(x)
  \/ \E x \in Sessions : DecodeOkStarts(x)
  \/ \E x \in Sessions, e \in PlayErrors : DecodeOkStartThrows(x, e)
  \/ \E x \in Sessions : SourceEnded(x)
  \/ \E x \in Sessions : PlayReturn(x)
  \/ \E p \in ProviderIds : Stop(p)
  \/ \E p \in ProviderIds : ContextClosed(p)

OverlapSpec == Init /\ [][OverlapNext]_vars

\* PlaybackSpec with what the runtime guarantees: a pending resume() or
\* decodeAudioData settles, close() resolves, and a source that does not loop
\* reaches its end while its context is running.  Nothing makes a source on a
\* closed context fire its ended event
PlaybackFairness ==
  /\ \A x \in SoloSessions :
       /\ WF_vars(ResumeOk(x))
       /\ WF_vars(\E e \in PlayErrors : DecodeFails(x, e))
       /\ WF_vars(DecodeOkNoContext(x))
       /\ WF_vars(DecodeOkStarts(x) \/ \E e \in PlayErrors : DecodeOkStartThrows(x, e))
       /\ WF_vars(SourceEnded(x) /\ providers[sessions[x].prov].ctx = "running")
  /\ \A p \in ProviderIds : WF_vars(ContextClosed(p))

PlaybackLiveSpec == Init /\ [][PlaybackNext]_vars /\ PlaybackFairness

\* the error history on its own
HistoryNext ==
  \/ \E e \in SoloErrors : HandleError(ErrorObject(e), "TTSService", "MEDIUM")
  \/ \E limit \in Limits : GetErrorHistory(limit)
  \/ ClearHistory

\* handleError is called with thrown values of every kind, with and without
\* a severity in its options
ClassifyNext ==
  \/ \E error \in ThrownValues, k \in SharedKeys, severity \in SeverityChoices :
        handled < MaxErrors /\ HandleError(error, k, severity)
  \/ \E limit \in Limits : GetErrorHistory(limit)
  \/ ClearHistory

ClassifySpec == Init /\ [][ClassifyNext]_vars

HistorySpec == Init /\ [][HistoryNext]_vars

\* one caller at a time, each call on a key of its choice
IsolationNext ==
  \/ \E c \in SoloCalls, k \in IsolationKeys, mr \in TwoAttempts, bd \in SharedRetryDelays :
        WithRetryStart(c, k, mr, bd)
  \/ \E c \in SoloCalls, v \in SoloValues : WithRetrySuccess(c, v)
  \/ \E c \in SoloCalls, e \in SoloErrors : WithRetryFailure(c, e)
  \/ \E c \in SoloCalls : WithRetryWake(c)
  \/ \E c \in SoloCalls, k \in IsolationKeys : WithCircuitBreakerStart(c, k)
  \/ \E c \in SoloCalls, v \in SoloValues : WithCircuitBreakerSuccess(c, v)
  \/ \E c \in SoloCalls, e \in SoloErrors : WithCircuitBreakerFailure(c, e)
  \/ \E c \in SoloCalls : Return(c)
  \/ \E d \in SharedTicks : Tick(d)

IsolationSpec == Init /\ [][IsolationNext]_vars

\* the remote client, one call at a time
ClientNext ==
  \/ \E c \in SoloCalls : HealthCheck(c)
  \/ \E c \in SoloCalls, status \in HealthStatuses : HealthCheckResponds(c, status)
  \/ \E c \in SoloCalls, e \in SoloErrors : HealthCheckFails(c, e)
  \/ \E c \in SoloCalls : BuildSentence(c)
  \/ \E c \in SoloCalls : GenerateSpeech(c)
  \/ \E c \in SoloCalls, v \in SoloValues : WithRetrySuccess(c, v)
  \/ \E c \in SoloCalls, e \in SoloErrors : WithRetryFailure(c, e)
  \/ \E c \in SoloCalls : WithRetryWake(c)
  \/ \E c \in SoloCalls : Return(c)
  \/ \E d \in SharedTicks : Tick(d)

ClientSpec == Init /\ [][ClientNext]_vars

\* one caller of withRetry or withCircuitBreaker, while errors are handled
\* and the history is read and cleared
HistoryEngineNext ==
  \/ \E c \in SoloCalls, k \in SharedKeys, mr \in SharedMaxRetries, bd \in SharedRetryDelays :
        WithRetryStart(c, k, mr, bd)
  \/ \E c \in SoloCalls, v \in SoloValues : WithRetrySuccess(c, v)
  \/ \E c \in SoloCalls, e \in SoloErrors : WithRetryFailure(c, e)
  \/ \E c \in SoloCalls : WithRetryWake(c)
  \/ \E c \in SoloCalls, k \in SharedKeys : WithCircuitBreakerStart(c, k)
  \/ \E c \in SoloCalls, v \in SoloValues : WithCircuitBreakerSuccess(c, v)
  \/ \E c \in SoloCalls, e \in SoloErrors : WithCircuitBreakerFailure(c, e)
  \/ \E c \in SoloCalls : Return(c)
  \/ \E d \in SharedTicks : Tick(d)
  \/ \E e \in SoloErrors, k \in SharedKeys :
        handled < MaxErrors /\ HandleError(ErrorObject(e), k, "MEDIUM")
  \/ \E limit \in Limits : GetErrorHistory(limit)
  \/ ClearHistory

HistoryEngineSpec == Init /\ [][HistoryEngineNext]_vars

TypeOK ==
  /\ now \in Epoch..(Epoch + Horizon)
  /\ \A k \in Keys : circuits[k].state \in {"NONE", "CLOSED", "OPEN", "HALF_OPEN"}
  /\ \A c \in Calls : calls[c].pc \in {"idle", "await", "sleep", "done"}

(***************************************************************************)
(* Properties                                                              *)
(***************************************************************************)
\* the step in which call c enters withCircuitBreaker / withRetry with key k
CBStarts(c, k) ==
  calls[c].pc = "idle" /\ calls'[c].kind = "cb" /\ calls'[c].key = k
RetryStarts(c, k) ==
  calls[c].pc = "idle" /\ calls'[c].kind = "retry" /\ calls'[c].key = k
\* the step in which the operation awaited by call c settles
Settles(c) == calls[c].pc = "await" /\ calls'[c].pc # "await"

\* C1: a withCircuitBreaker call on a key whose circuit is OPEN and still within
\* the cooldown rejects with the circuit-open error, never invokes the
\* operation, and leaves the circuit record as it was.
C1_OpenCircuitRejects ==
  [][\A c \in Calls, k \in Keys :
       (CBStarts(c, k) /\ OpenWithinCooldown(circuits, k, now))
         => /\ calls'[c].pc = "done"
            /\ calls'[c].result = AppError("INVALID_STATE", k)
            /\ calls'[c].invoked = 0
            /\ circuits'[k] = circuits[k]]_vars

\* a rejected withCircuitBreaker call on a circuit opened some time ago
C1_Witness ==
  \E c \in Calls :
    /\ calls[c].kind = "cb" /\ calls[c].pc = "done"
    /\ calls[c].result = AppError("INVALID_STATE", calls[c].key)
    /\ calls[c].invoked = 0
    /\ OpenWithinCooldown(circuits, calls[c].key, now)
    /\ now - circuits[calls[c].key].lastFailureTime > 0

\* C2 (as claimed): a withRetry call that starts while the circuit of its key is
\* OPEN and within the cooldown rejects with the circuit-open error and never
\* invokes the operation.
C2_RetryRejectsWhileOpen ==
  [][\A c \in Calls, k \in Keys :
       (RetryStarts(c, k) /\ OpenWithinCooldown(circuits, k, now))
         => /\ calls'[c].invoked = 0
            /\ calls'[c].pc = "done"
            /\ calls'[c].result.tag = "rejected"
            /\ calls'[c].result.code = "INVALID_STATE"]_vars

\* the step records an outcome of the given kind against key k
Records(k) == \E c \in Calls : calls[c].key = k /\ Settles(c)
RecordsSuccess(k) ==
  \E c \in Calls : calls[c].key = k /\ Settles(c) /\ calls'[c].settled \in Values
RecordsFailure(k) ==
  \E c \in Calls : calls[c].key = k /\ Settles(c) /\ calls'[c].settled \in Errors

\* C3 (as claimed): right after any recorded outcome the circuit is OPEN exactly
\* when the five most recent recorded outcomes were all failures, and a success
\* recorded while CLOSED resets the failure counter.
C3_OpenIffFiveFailures ==
  [][\A k \in Keys :
       /\ Records(k) =>
            (circuits'[k].state = "OPEN" <=> failRun'[k] = 5)
       /\ (RecordsSuccess(k) /\ circuits[k].state \in {"NONE", "CLOSED"}) =>
            circuits'[k].failures = 0]_vars

\* C3 (amended): right after a recorded outcome, five failures in a row mean
\* OPEN; a circuit that was CLOSED opens only on the fifth failure in a row;
\* while CLOSED the counter equals the current run of failures and is below
\* five; a success recorded while CLOSED resets the counter.  (The circuit may
\* be OPEN with a success among the latest five outcomes.)
C3_OpensOnFifthFailure ==
  [][\A k \in Keys :
       /\ Records(k) =>
            /\ failRun'[k] = 5 => circuits'[k].state = "OPEN"
            /\ (circuits[k].state \in {"NONE", "CLOSED"} /\ circuits'[k].state = "OPEN")
                  => failRun'[k] = 5
            /\ circuits'[k].state = "CLOSED"
                  => circuits'[k].failures = failRun'[k] /\ circuits'[k].failures < 5
       /\ (RecordsSuccess(k) /\ circuits[k].state \in {"NONE", "CLOSED"}) =>
            circuits'[k].failures = 0 /\ circuits'[k].state = "CLOSED"]_vars

\* a circuit that has just opened on its fifth failure in a row
C3_Witness ==
  \E k \in Keys :
    /\ circuits[k].state = "OPEN"
    /\ circuits[k].failures = 5
    /\ failRun[k] = 5
    /\ circuits[k].lastFailureTime = now

\* C4: an OPEN circuit whose cooldown has elapsed lets the next
\* withCircuitBreaker call through in HALF_OPEN; the move to HALF_OPEN happens
\* only in such a query, never when time passes; in HALF_OPEN the second success
\* in a row closes the circuit with both counters at 0, and one failure reopens
\* it with lastFailureTime set to the time of that failure.
C4_HalfOpenRecovery ==
  [][\A k \in Keys :
       /\ \A c \in Calls :
            (CBStarts(c, k) /\ circuits[k].state = "OPEN"
                           /\ now - circuits[k].lastFailureTime >= 60000)
              => /\ circuits'[k].state = "HALF_OPEN"
                 /\ calls'[c].pc = "await"
                 /\ calls'[c].invoked = 1
       /\ now' # now => circuits' = circuits
       /\ (circuits[k].state = "OPEN" /\ circuits'[k].state = "HALF_OPEN")
            => \E c \in Calls : CBStarts(c, k)
       /\ circuits[k].state = "OPEN" => circuits[k].successes = 0
       /\ (RecordsSuccess(k) /\ circuits[k].state = "HALF_OPEN") =>
            IF circuits[k].successes + 1 >= 2
            THEN /\ circuits'[k].state = "CLOSED"
                 /\ circuits'[k].failures = 0
                 /\ circuits'[k].successes = 0
            ELSE /\ circuits'[k].state = "HALF_OPEN"
                 /\ circuits'[k].successes = circuits[k].successes + 1
       /\ (RecordsFailure(k) /\ circuits[k].state = "HALF_OPEN") =>
            /\ circuits'[k].state = "OPEN"
            /\ circuits'[k].lastFailureTime = now
            /\ circuits'[k].successes = 0]_vars

\* a call let through in HALF_OPEN has resolved and the circuit is closed again
C4_Witness ==
  \E c \in Calls :
    /\ calls[c].kind = "cb" /\ calls[c].pc = "done"
    /\ calls[c].seen = "HALF_OPEN"
    /\ calls[c].result.tag = "resolved"
    /\ circuits[calls[c].key].state = "CLOSED"
    /\ circuits[calls[c].key].failures = 0
    /\ circuits[calls[c].key].successes = 0
    /\ failRun[calls[c].key] = 0

\* C5 (as claimed): once the cooldown of an OPEN circuit has elapsed, a
\* withRetry call on its key is let through with the circuit in HALF_OPEN, a
\* success of such a call does not leave the circuit OPEN, and the second
\* success in a row in HALF_OPEN closes it.
C5_RetryRecovers ==
  [][\A k \in Keys :
       /\ \A c \in Calls :
            (RetryStarts(c, k) /\ circuits[k].state = "OPEN"
                              /\ now - circuits[k].lastFailureTime >= timeout
                              /\ calls'[c].maxRetries >= 1)
              => /\ circuits'[k].state = "HALF_OPEN"
                 /\ calls'[c].invoked = 1
       /\ (RecordsSuccess(k) /\ circuits[k].state = "OPEN"
                             /\ now - circuits[k].lastFailureTime >= timeout)
            => circuits'[k].state # "OPEN"
       /\ (RecordsSuccess(k) /\ circuits[k].state = "HALF_OPEN"
                             /\ circuits[k].successes = 1)
            => circuits'[k].state = "CLOSED"]_vars

\* C6: a withRetry call with maxRetries = n >= 1 that rejected without the
\* circuit-open error (every invocation failed, the circuit was never found
\* OPEN) has invoked the operation n times, slept n-1 times, and carries the
\* error of the last invocation in the retry-exhausted error.
C6_ExhaustedAfterAllAttempts ==
  \A c \in Calls :
    (/\ calls[c].kind = "retry" /\ calls[c].pc = "done"
     /\ calls[c].maxRetries >= 1
     /\ calls[c].result.tag = "rejected"
     /\ calls[c].result.code # "INVALID_STATE")
      => /\ calls[c].invoked = calls[c].maxRetries
         /\ Len(calls[c].waits) = calls[c].maxRetries - 1
         /\ calls[c].settled \in Errors
         /\ calls[c].result = AppError("UNKNOWN_ERROR", calls[c].settled)

\* three failed attempts on a keyed call, the last one with a different error
C6_Witness ==
  \E c \in Calls :
    /\ calls[c].kind = "retry" /\ calls[c].pc = "done"
    /\ calls[c].key \in Keys
    /\ calls[c].maxRetries = 3 /\ calls[c].invoked = 3
    /\ calls[c].result = AppError("UNKNOWN_ERROR", "e2")
    /\ Len(calls[c].waits) = 2

\* C7: when an invocation succeeds the withRetry call resolves at once with
\* that value, one success is recorded if a key was given, and the operation
\* is not invoked again in that call.
C7_SuccessReturnsAtOnce ==
  [][\A c \in Calls :
       /\ (calls[c].kind = "retry" /\ calls[c].pc = "await"
              /\ calls'[c] # calls[c] /\ calls'[c].settled \in Values)
            => /\ calls'[c].pc = "done"
               /\ calls'[c].result = Resolved(calls'[c].settled)
               /\ calls'[c].recS = IF calls[c].key # NoKey THEN 1 ELSE 0
               /\ calls'[c].invoked = calls[c].invoked
       /\ (calls[c].kind = "retry" /\ calls[c].pc = "done")
            => calls'[c] \in {calls[c], IdleCall}]_vars

\* a keyed call that resolved on its second attempt with one attempt left
C7_Witness ==
  \E c \in Calls :
    /\ calls[c].kind = "retry" /\ calls[c].pc = "done"
    /\ calls[c].key \in Keys
    /\ calls[c].maxRetries = 3 /\ calls[c].attempt = 1 /\ calls[c].invoked = 2
    /\ calls[c].result = Resolved("v2")
    /\ calls[c].recS = 1 /\ calls[c].recF = 1

\* C8: if the circuit is OPEN once a failed attempt of a keyed withRetry call
\* has been recorded, the call rejects in that step with the circuit-open
\* error carrying that attempt's error, without a backoff wait and without
\* another invocation, also on the last attempt.
C8_OpenCircuitStopsRetry ==
  [][\A c \in Calls, k \in Keys :
       /\ (calls[c].kind = "retry" /\ calls[c].key = k /\ Settles(c)
              /\ calls'[c].settled \in Errors /\ circuits'[k].state = "OPEN")
            => /\ calls'[c].pc = "done"
               /\ calls'[c].result = AppError("INVALID_STATE", calls'[c].settled)
               /\ calls'[c].waits = calls[c].waits
               /\ calls'[c].invoked = calls[c].invoked
       /\ (calls[c].kind = "retry" /\ calls[c].pc = "done")
            => calls'[c] \in {calls[c], IdleCall}]_vars

\* a call stopped by the open circuit after its first attempt, two attempts left
C8_Witness ==
  \E c \in Calls :
    /\ calls[c].kind = "retry" /\ calls[c].pc = "done"
    /\ calls[c].maxRetries = 3 /\ calls[c].attempt = 0 /\ calls[c].invoked = 1
    /\ calls[c].result = AppError("INVALID_STATE", "e2")
    /\ calls[c].waits = <<>>
    /\ circuits[calls[c].key].state = "OPEN"

\* C9: a withCircuitBreaker call on a circuit that is not OPEN invokes the
\* operation once; it rejects with the operation's own error after recording
\* one failure, or resolves with the operation's value after recording one
\* success.
C9_BreakerSingleInvocation ==
  /\ [](\A c \in Calls :
         (calls[c].kind = "cb" /\ calls[c].pc = "done"
            /\ calls[c].result.code # "INVALID_STATE")
           => /\ calls[c].invoked = 1
              /\ calls[c].result.tag = "rejected"
                   => /\ calls[c].settled \in Errors
                      /\ calls[c].result = [tag |-> "rejected", code |-> "OP_ERROR",
                                             cause |-> calls[c].settled]
                      /\ calls[c].recF = 1 /\ calls[c].recS = 0
              /\ calls[c].result.tag = "resolved"
                   => /\ calls[c].settled \in Values
                      /\ calls[c].result = Resolved(calls[c].settled)
                      /\ calls[c].recS = 1 /\ calls[c].recF = 0)
  /\ [][\A c \in Calls, k \in Keys :
          /\ (CBStarts(c, k) /\ circuits[k].state # "OPEN")
               => calls'[c].pc = "await" /\ calls'[c].invoked = 1
          /\ (calls[c].kind = "cb" /\ calls[c].key = k /\ Settles(c)
                 /\ calls'[c].settled \in Errors)
               => /\ circuits'[k].failures = circuits[k].failures + 1
                  /\ circuits'[k].lastFailureTime = now
          /\ (calls[c].kind = "cb" /\ calls[c].pc = "done")
               => calls'[c] \in {calls[c], IdleCall}]_vars

\* a withCircuitBreaker call that rejected with the operation's own error
C9_Witness ==
  \E c \in Calls :
    /\ calls[c].kind = "cb" /\ calls[c].pc = "done"
    /\ calls[c].result = [tag |-> "rejected", code |-> "OP_ERROR", cause |-> "e2"]
    /\ calls[c].invoked = 1 /\ calls[c].recF = 1
    /\ circuits[calls[c].key].state = "CLOSED"

\* base doubled k times
RECURSIVE Doubled(_, _)
Doubled(base, k) == IF k = 0 THEN base ELSE 2 * Doubled(base, k - 1)

\* C10: the i-th backoff wait of a withRetry call, taken after failed attempt
\* i-1, is the base delay doubled i-1 times and capped at 10000; for base
\* delay 1000 the waits are 1000, 2000, 4000, 8000, 10000; the waits of one
\* call never decrease and never exceed 10000.
C10_BackoffSchedule ==
  \A c \in Calls :
    calls[c].kind = "retry" =>
      LET w == calls[c].waits
      IN /\ \A i \in 1..Len(w) :
              /\ w[i] = IF Doubled(calls[c].baseDelay, i - 1) < 10000
                        THEN Doubled(calls[c].baseDelay, i - 1) ELSE 10000
              /\ w[i] <= 10000
              /\ i > 1 => w[i - 1] <= w[i]
         /\ calls[c].baseDelay = 1000 =>
              w = SubSeq(<<1000, 2000, 4000, 8000, 10000>>, 1, Len(w))
         /\ calls[c].pc = "sleep" => Len(w) = calls[c].attempt + 1
         /\ calls[c].pc = "await" => Len(w) = calls[c].attempt

\* a call that has taken all five waits of the default schedule
C10_Witness ==
  \E c \in Calls :
    /\ calls[c].kind = "retry"
    /\ calls[c].baseDelay = 1000
    /\ calls[c].waits = <<1000, 2000, 4000, 8000, 10000>>

(* ---------------- provider selection ---------------- *)
\* the step in which the remote initialization awaited by getter g fails
RemoteFailed(g) ==
  /\ getters[g].pc = "remote"
  /\ getters'[g].pc # "remote"
  /\ ~providers'[getters[g].prov].isInitialized

\* C12: when the remote provider's initialization fails (the probe throws,
\* answers non-2xx or loses against the timer) and the browser has the speech
\* API, createInstance constructs the local provider and waits for it; when
\* that initialization completes, getInstance resolves with this local
\* provider, initialized, and it is the cached instance
C12_FallbackToLocal ==
  [][\A g \in Getters :
       /\ (RemoteFailed(g) /\ speechApi) =>
            /\ getters'[g].pc = "local"
            /\ getters'[g].prov # getters[g].prov
            /\ providers'[getters'[g].prov].kind = "mock"
       /\ (getters[g].pc = "local" /\ getters'[g].pc # "local") =>
            /\ getters'[g].pc = "done"
            /\ getters'[g].result = [tag |-> "resolved", prov |-> getters[g].prov]
            /\ providers'[getters[g].prov].kind = "mock"
            /\ providers'[getters[g].prov].isInitialized
            /\ instance' = getters[g].prov]_vars

C12_Witness ==
  \E g \in Getters, p \in ProviderIds :
    /\ getters[g].pc = "done"
    /\ getters[g].result = [tag |-> "resolved", prov |-> p]
    /\ providers[p].kind = "mock" /\ providers[p].isInitialized
    /\ instance = p
    /\ \E q \in ProviderIds : providers[q].kind = "server" /\ ~providers[q].isInitialized

\* C13: between two calls of reset(), createInstance runs at most once and
\* every getInstance() resolves to one and the same provider object, however
\* the calls of getInstance overlap
C13_SingleSelection ==
  /\ created.runs <= 1
  /\ Cardinality(created.resolved) <= 1

\* C14: reset() with a cached instance calls cleanup() on it exactly once,
\* touches no other provider and clears the cache; with nothing cached it
\* changes nothing.  A getInstance() that finds the cache empty runs the
\* selection on a newly constructed provider, and neither the cache nor a
\* result of getInstance ever holds a provider that was cleaned up before
C14_ResetClearsCache ==
  [][/\ Reset =>
          IF instance # NoProvider
          THEN /\ instance' = NoProvider
               /\ providers'[instance].cleanups = providers[instance].cleanups + 1
               /\ ~providers'[instance].isInitialized
               /\ \A q \in ProviderIds \ {instance} : providers'[q] = providers[q]
          ELSE UNCHANGED <<instance, providers, getters>>
     /\ \A g \in Getters :
          /\ (getters[g].pc = "idle" /\ getters'[g].pc # "idle" /\ instance = NoProvider) =>
               /\ getters'[g].pc = "remote"
               /\ providers[getters'[g].prov].kind = "none"
               /\ providers'[getters'[g].prov].kind = "server"
          /\ (getters[g].pc # "done" /\ getters'[g].pc = "done"
                /\ getters'[g].result.tag = "resolved") =>
               providers'[getters'[g].result.prov].cleanups = 0
     /\ instance' # NoProvider => providers'[instance'].cleanups = 0]_vars

C14_Witness ==
  \E g \in Getters, p, q \in ProviderIds :
    /\ providers[q].cleanups = 1
    /\ p # q /\ instance = p
    /\ getters[g].pc = "done"
    /\ getters[g].result = [tag |-> "resolved", prov |-> p]

(* ---------------- synthesis ---------------- *)
\* the step in which synthesize is called in slot s
SynthesizeCalled(s) == synths[s].pc = "idle" /\ synths'[s].pc # "idle"

InvalidText(t) == t.words = 0 \/ t.length > maxTextLength

\* C15: the remote provider is marked available only after a health probe
\* with status 'ok', and a synthesize that resolved ran on a provider whose
\* probe said 'ok'; a synthesize called while the provider is not initialized
\* or not marked available rejects at once, sends no speech request and
\* leaves every circuit record as it was
C15_RemoteOnlyWhenAvailable ==
  [][/\ \A p \in ProviderIds :
          providers'[p].serverAvailable =>
             providers'[p].probe = "ok" /\ providers'[p].isInitialized
     /\ \A s \in Synths :
          /\ (synths'[s].result.tag = "resolved"
                /\ providers'[synths'[s].prov].kind = "server") =>
               providers'[synths'[s].prov].probe = "ok"
          /\ (SynthesizeCalled(s)
                /\ providers[synths'[s].prov].kind = "server"
                /\ ~(providers[synths'[s].prov].isInitialized
                       /\ providers[synths'[s].prov].serverAvailable)) =>
               /\ synths'[s].pc = "done"
               /\ synths'[s].result.tag = "rejected"
               /\ calls' = calls
               /\ circuits' = circuits]_vars

C15_Witness ==
  \E s \in Synths :
    /\ synths[s].pc = "done"
    /\ synths[s].result = SynthRejected("Server is not available")
    /\ providers[synths[s].prov].probe = "degraded"
    /\ synths[s].text.words > 0 /\ synths[s].text.length <= maxTextLength

\* C16: on an initialized local provider every request with valid text
\* resolves once the call goes on after its await, with no request sent, and
\* the buffer has
\* 44 + 2 * sampleCount bytes, RIFF size byteLength - 8, data size
\* byteLength - 44, format PCM, 1 channel, 16 bits, and the sample rate 22050
\* that the result's sampleRate field states
C16_LocalWavLayout ==
  [][\A s \in Synths :
       /\ (SynthesizeCalled(s)
             /\ providers[synths'[s].prov].kind = "mock"
             /\ providers[synths'[s].prov].isInitialized
             /\ ~InvalidText(synths'[s].text)) =>
            /\ synths'[s].pc = "yield"
            /\ calls' = calls /\ circuits' = circuits
       /\ (synths[s].pc = "yield" /\ synths'[s].pc # "yield") =>
         LET r == synths'[s].result
             h == r.audio.header
             n == numSamples(splitCount(synths'[s].text))
         IN /\ synths'[s].pc = "done"
            /\ r.tag = "resolved"
            /\ calls' = calls /\ circuits' = circuits
            /\ r.audio.byteLength = 44 + 2 * n
            /\ Len(h) = 44
            /\ SubSeq(h, 1, 4) = <<82, 73, 70, 70>>
            /\ getUint(h, 4, 4) = r.audio.byteLength - 8
            /\ getUint(h, 40, 4) = r.audio.byteLength - 44
            /\ getUint(h, 20, 2) = 1
            /\ getUint(h, 22, 2) = 1
            /\ getUint(h, 34, 2) = 16
            /\ getUint(h, 24, 4) = sampleRate
            /\ r.sampleRate = sampleRate
            /\ r.channels = 1]_vars

C16_Witness ==
  \E s \in Synths :
    /\ synths[s].pc = "done"
    /\ providers[synths[s].prov].kind = "mock"
    /\ synths[s].result.tag = "resolved"
    /\ synths[s].text.words = 9
    /\ synths[s].result.audio.byteLength = 44 + 2 * 79379

\* C17: on either provider a synthesize whose text is empty, only whitespace
\* or longer than 5000 characters rejects in the calling step, with no request
\* sent and no audio generated; a text of exactly 5000 characters that is not
\* blank is accepted by a provider that is ready: the remote one sends its
\* request, the local one generates its audio
C17_TextValidation ==
  [][\A s \in Synths :
       SynthesizeCalled(s) =>
         LET t == synths'[s].text
             o == providers[synths'[s].prov]
         IN /\ InvalidText(t) =>
                 /\ synths'[s].pc = "done"
                 /\ synths'[s].result.tag = "rejected"
                 /\ synths'[s].result.audio = NoAudio
                 /\ synths'[s].generated = 0
                 /\ calls' = calls
            /\ (t.length = maxTextLength /\ t.words > 0 /\ o.isInitialized) =>
                 /\ (o.kind = "mock") =>
                      synths'[s].pc = "yield" /\ synths'[s].generated = 1
                 /\ (o.kind = "server" /\ o.serverAvailable) =>
                      /\ synths'[s].pc = "await"
                      /\ calls'[synths'[s].call].invoked = 1]_vars

C17_Witness ==
  \E s \in Synths :
    /\ synths[s].pc = "await"
    /\ providers[synths[s].prov].kind = "server"
    /\ synths[s].text.length = maxTextLength
    /\ calls[synths[s].call].invoked = 1

(* ---------------- playback ---------------- *)
\* how often callback or settlement `what` occurs in the log of session x
Occurrences(x, what) ==
  Cardinality({i \in 1..Len(sessions[x].log) : sessions[x].log[i].what = what})
\* position of the first occurrence of `what` in the log of session x
Position(x, what) ==
  CHOOSE i \in 1..Len(sessions[x].log) :
    /\ sessions[x].log[i].what = what
    /\ \A j \in 1..(i - 1) : sessions[x].log[j].what # what

\* C18: a play() whose bytes fail to decode ends failed with its promise
\* rejected, has called options.onError exactly once (when the caller gave
\* one) and has never called options.onEnd
C18_DecodeFailureNotifies ==
  \A x \in Sessions :
    sessions[x].cause = "decode" =>
      /\ sessions[x].pc = "failed"
      /\ sessions[x].promise = "rejected"
      /\ sessions[x].hasOnError => Occurrences(x, "onError") = 1
      /\ Occurrences(x, "onEnd") = 0

\* C19: when the source of a session has played to its end, source and gain
\* node are disconnected, options.onEnd (when given) has been called exactly
\* once and before the promise was resolved, the promise is resolved, and
\* options.onError was never called
C19_NaturalCompletion ==
  \A x \in Sessions :
    sessions[x].pc = "ended" =>
      /\ ~sessions[x].sourceConnected /\ ~sessions[x].gainConnected
      /\ Occurrences(x, "source.disconnect") = 1
      /\ Occurrences(x, "gain.disconnect") = 1
      /\ sessions[x].promise = "resolved"
      /\ Occurrences(x, "resolve") = 1
      /\ Occurrences(x, "reject") = 0
      /\ Occurrences(x, "onError") = 0
      /\ sessions[x].hasOnEnd =>
           /\ Occurrences(x, "onEnd") = 1
           /\ Position(x, "onEnd") < Position(x, "resolve")
           /\ Position(x, "gain.disconnect") < Position(x, "onEnd")
      /\ ~sessions[x].hasOnEnd => Occurrences(x, "onEnd") = 0

C19_Witness ==
  \E x \in Sessions :
    /\ sessions[x].pc = "ended"
    /\ sessions[x].hasOnEnd /\ sessions[x].hasOnError
    /\ Occurrences(x, "onEnd") = 1

\* C20: when source.start throws an Error, source and gain node are
\* disconnected, options.onError (when given) has been called exactly once,
\* with that Error and before the promise was rejected, the promise is
\* rejected with the same Error object, options.onEnd was never called and
\* the error handler's history is not written
C20_StartFailure ==
  [][\A x \in Sessions :
       (sessions[x].pc = "decode" /\ sessions'[x].cause = "start") =>
         LET l == sessions'[x].log
             n == Len(l)
         IN /\ sessions'[x].pc = "failed"
            /\ ~sessions'[x].sourceConnected /\ ~sessions'[x].gainConnected
            /\ sessions'[x].promise = "rejected"
            /\ ~sessions'[x].error.fresh
            /\ l[n] = Event("reject", sessions'[x].error)
            /\ \A i \in 1..n : l[i].what # "onEnd"
            /\ Cardinality({i \in 1..n : l[i].what = "onError"})
                 = IF sessions[x].hasOnError THEN 1 ELSE 0
            /\ sessions[x].hasOnError =>
                 /\ l[n - 1] = Event("onError", sessions'[x].error)
                 /\ l[n - 2].what = "gain.disconnect"
            /\ errorHistory' = errorHistory]_vars

C20_Witness ==
  \E x \in Sessions :
    /\ sessions[x].pc = "failed" /\ sessions[x].cause = "start"
    /\ sessions[x].hasOnError /\ sessions[x].hasOnEnd
    /\ sessions[x].error = Thrown("InvalidStateError")
    /\ Occurrences(x, "onError") = 1

(* ---------------- per-call options ---------------- *)
\* what a call would use for parameter f if the options object decided it
Requested(c, f, d) == optionOr(supplied[c], f, d)

C21_PlayCopiesBuffer ==
  /\ \A v \in Values : results[v] = networkAudio(v)
  /\ \A x \in Sessions :
       sessions[x].pc \in {"decode", "playing", "ended"} =>
         /\ sessions[x].audio = networkAudio(sessions[x].source)
         /\ sessions[x].pc \in {"playing", "ended"} => Decodable(sessions[x].audio)

\* the same result was played twice: one play has ended, the other one has
\* decoded the same bytes again
C21_Witness ==
  /\ sessions[1].pc = "playing"
  /\ sessions[2].pc = "ended"
  /\ sessions[1].source = sessions[2].source
  /\ sessions[1].audio = sessions[2].audio
  /\ results[sessions[1].source] = sessions[1].audio

\* C22: a session that was decoding or playing when stop() was
\* called settles eventually
C22_StopSettlesSession ==
  \A x \in SoloSessions :
    (sessions[x].stopped \in {"decode", "playing"})
      ~> (sessions[x].pc \notin {"resume", "decode", "playing"})

\* C23: whenever play gets to build its graph, after decodeAudioData has
\* resolved, the provider's context is neither closed nor null
C23_GraphOnLiveContext ==
  [][\A x \in Sessions :
       (sessions[x].pc = "decode" /\ sessions'[x].pc # "decode"
          /\ Decodable(sessions[x].audio)) =>
         providers[sessions[x].prov].ctx \notin {"closed", "null"}]_vars

\* C24: a call of play leaves every session that is playing on the running
\* context as it is and creates no other context on that provider; a session's promise resolves only in the step in which its
\* own source ends, after its own onEnd, and that step touches no other
\* session
C24_SessionsIndependent ==
  [][\A x \in Sessions :
       /\ \A y \in Sessions \ {x} :
            (sessions[y].pc = "idle" /\ sessions'[y].pc # "idle"
               /\ sessions[x].pc = "playing"
               /\ providers[sessions[x].prov].ctx = "running") =>
              /\ sessions'[x] = sessions[x]
              /\ sessions'[y].prov = sessions[x].prov => providers' = providers
       /\ (sessions[x].promise = "pending" /\ sessions'[x].promise = "resolved") =>
            /\ sessions[x].pc = "playing" /\ sessions'[x].pc = "ended"
            /\ sessions'[x].log = sessions[x].log
                 \o <<Event("source.disconnect", NoError),
                      Event("gain.disconnect", NoError),
                      Event("onEnd", NoError), Event("resolve", NoError)>>
            /\ \A y \in Sessions \ {x} : sessions'[y] = sessions[y]]_vars

\* the later session has ended while the earlier one still plays, untouched,
\* on the same running context
C24_Witness ==
  /\ sessions[1].pc = "playing" /\ sessions[1].log = <<>>
  /\ sessions[1].sourceConnected /\ sessions[1].gainConnected
  /\ sessions[2].pc = "ended"
  /\ sessions[1].prov = sessions[2].prov
  /\ providers[sessions[1].prov].ctx = "running"

(* ---------------- error history ---------------- *)
\* C25: the history never holds more than maxHistorySize entries; handleError
\* appends its processed error at the end and, on a full history, drops the
\* first entry and no other, keeping the order of the rest; clearHistory
\* empties it; getErrorHistory returns the entries newest first
C25_BoundedFifo ==
  [][/\ Len(errorHistory) <= maxHistorySize /\ Len(errorHistory') <= maxHistorySize
     /\ handled' # handled =>
          LET new == errorHistory'[Len(errorHistory')]
          IN /\ new.id = handled'
             /\ errorHistory' =
                  (IF Len(errorHistory) = maxHistorySize THEN Tail(errorHistory)
                   ELSE errorHistory) \o <<new>>
     /\ (handled' = handled /\ errorHistory' # errorHistory) => errorHistory' = <<>>
     /\ \A i \in 1..Len(view') : view'[i] = errorHistory'[Len(errorHistory') + 1 - i]
     /\ \A i \in 1..(Len(view') - 1) : view'[i].id > view'[i + 1].id]_vars

\* two entries have been evicted from a full history, and the whole history
\* has been read, the latest entry first
C25_Witness ==
  /\ Len(errorHistory) = maxHistorySize
  /\ errorHistory[1].id = 3
  /\ Len(view) = maxHistorySize
  /\ view[1].id = maxHistorySize + 2
  /\ view[maxHistorySize].id = 3

\* C26: handleError, getErrorHistory and clearHistory change no circuit
\* record and nothing else that withRetry and withCircuitBreaker keep, and a
\* step of withRetry or withCircuitBreaker changes nothing of the history
C26_HistoryApartFromCircuits ==
  [][/\ historyVars' # historyVars => engineVars' = engineVars
     /\ engineVars' # engineVars => historyVars' = historyVars]_vars

\* a call was rejected by the open circuit while the history held an error
\* with the circuit's name as its context, and the history was read
C26_Witness ==
  \E c \in SoloCalls :
    /\ calls[c].pc = "done"
    /\ circuits[calls[c].key].state = "OPEN"
    /\ Len(errorHistory) = MaxErrors
    /\ errorHistory[1].context = calls[c].key
    /\ Len(view) = MaxErrors

(* ---------------- remote client ---------------- *)
\* the outbound call that call c awaits fails in this step
FailedOutbound(c) ==
  /\ calls[c].op \in RemoteOps
  /\ calls[c].pc = "await" /\ calls'[c].pc # "await"
  /\ calls'[c].result.tag # "resolved"

\* the step records one failure against key k and changes no other circuit
RecordedAgainst(k) ==
  /\ circuits'[k].failures = circuits[k].failures + 1
  /\ \A j \in Keys \ {k} : circuits'[j] = circuits[j]

C28_StatusRetried ==
  \A c \in Calls :
    (calls[c].op \in {"sentence", "speech"} /\ calls[c].pc = "done"
       /\ calls[c].result.tag = "rejected") =>
      /\ calls[c].recF = calls[c].invoked
      /\ calls[c].result.code = "INVALID_STATE" \/ calls[c].invoked >= 2

(* ---------------- overlapping calls on one key ---------------- *)
\* C29: overlapping withRetry calls on one key update one record: every
\* failure of either call adds one to the record's counter, and the circuit
\* is OPEN as soon as the failures of both calls together make a run of
\* failureThreshold; a success of either call while the circuit is CLOSED
\* sets the counter back to zero for both, one in HALF_OPEN is counted, and
\* one while OPEN changes nothing, as recordSuccess has it for any caller
C29_SharedRecord ==
  [][\A c \in Calls :
       (calls[c].kind = "retry" /\ calls[c].pc = "await" /\ calls[c].key \in Keys) =>
         LET k == calls[c].key
         IN /\ calls'[c].recF = calls[c].recF + 1 =>
                 /\ circuits'[k].failures = circuits[k].failures + 1
                 /\ failRun'[k] = Min(failRun[k] + 1, failureThreshold)
                 /\ failRun'[k] = failureThreshold => circuits'[k].state = "OPEN"
            /\ calls'[c].recS = calls[c].recS + 1 =>
                 /\ failRun'[k] = 0
                 /\ circuits[k].state = "CLOSED" =>
                      circuits'[k].state = "CLOSED" /\ circuits'[k].failures = 0
                 /\ circuits[k].state = "HALF_OPEN" =>
                      \/ circuits'[k].successes = circuits[k].successes + 1
                      \/ circuits'[k].state = "CLOSED"
                 /\ circuits[k].state = "OPEN" => circuits'[k] = circuits[k]]_vars

\* the circuit has opened on the fifth failure in a row, of which neither of
\* the two calls in progress has made more than three
C29_Witness ==
  \E k \in SharedKeys :
    /\ circuits[k].state = "OPEN" /\ circuits[k].failures = failureThreshold
    /\ \A c \in Calls : calls[c].kind = "retry" /\ calls[c].key = k
                          /\ calls[c].recF \in 1..(failureThreshold - 1)
    /\ calls[1].recF + calls[2].recF = failureThreshold

(* ---------------- health probe against its timer ---------------- *)
\* C30: when the timer fires before the probe has settled, the remote
\* provider is left uninitialized and unavailable and the selector goes on
\* with a local provider; whatever the probe answers afterwards, the remote
\* provider stays uninitialized and unavailable and is never cached or handed
\* out
C30_LateProbeIgnored ==
  [][\A p \in ProviderIds :
       /\ (providers[p].probe # "abandoned" /\ providers'[p].probe = "abandoned") =>
            \E g \in Getters :
              /\ getters[g].pc = "remote" /\ getters[g].prov = p
              /\ getters'[g].pc \in {"local", "done"}
              /\ getters'[g].result.tag # "resolved"
              /\ getters'[g].prov # p
              /\ providers'[getters'[g].prov].kind = "mock"
       /\ providers'[p].probe = "abandoned" =>
            /\ ~providers'[p].isInitialized /\ ~providers'[p].serverAvailable
            /\ instance' # p
            /\ \A g \in Getters : getters'[g].result.prov # p]_vars

\* the probe has answered 'ok' after the timer, and the caller has been given
\* the local provider
C30_Witness ==
  \E p \in ProviderIds, g \in SoloGetters :
    /\ providers[p].probe = "abandoned" /\ providers[p].late = "ok"
    /\ ~providers[p].isInitialized /\ ~providers[p].serverAvailable
    /\ getters[g].pc = "done" /\ getters[g].result.tag = "resolved"
    /\ providers[getters[g].result.prov].kind = "mock"
    /\ instance = getters[g].result.prov

(* ---------------- usable providers ---------------- *)
\* provider object o can synthesize
Usable(o) ==
  \/ o.kind = "server" /\ o.isInitialized /\ o.serverAvailable
  \/ o.kind = "mock" /\ o.isInitialized

\* C31: whenever getInstance() resolves, the provider it returns is an
\* initialized and available remote provider or an initialized local one,
\* and so is the provider the selector has cached
C31_CachedProviderUsable ==
  [][/\ \A g \in Getters :
          (getters[g].pc # "done" /\ getters'[g].pc = "done"
             /\ getters'[g].result.tag = "resolved") =>
            Usable(providers'[getters'[g].result.prov])
     /\ instance' # NoProvider => Usable(providers'[instance'])]_vars

(* ---------------- circuit record invariant ---------------- *)
\* C32: for every key that has a record, a CLOSED circuit has counted fewer
\* than failureThreshold failures, an OPEN or HALF_OPEN one at least that
\* many, and the success counter is 0 except in HALF_OPEN, where it is below
\* successThreshold
C32_CircuitRecordInvariant ==
  \A k \in Keys :
    circuits[k] # NoCircuit =>
      /\ circuits[k].state = "CLOSED" => circuits[k].failures < failureThreshold
      /\ circuits[k].state \in {"OPEN", "HALF_OPEN"} =>
           circuits[k].failures >= failureThreshold
      /\ circuits[k].state # "HALF_OPEN" => circuits[k].successes = 0
      /\ circuits[k].state = "HALF_OPEN" =>
           circuits[k].successes \in 0..(successThreshold - 1)

\* a circuit on trial has counted one success, next to the failures that
\* had opened it
C32_Witness ==
  \E k \in Keys :
    /\ circuits[k].state = "HALF_OPEN"
    /\ circuits[k].successes = successThreshold - 1
    /\ circuits[k].failures >= failureThreshold

(* ---------------- circuits per key ---------------- *)
\* the key of the call in slot c, in a step of that call
KeyInStep(c) == IF calls[c].pc = "idle" THEN calls'[c].key ELSE calls[c].key

\* C33: a step of a withRetry or withCircuitBreaker call with key A changes
\* the record of no other key; a record comes into being only in a step that
\* records a success or a failure for its key; and a call that queries a key
\* without a record is let through and leaves the key without one
C33_CircuitsIsolatedAndLazy ==
  [][\A c \in Calls :
       calls'[c] # calls[c] =>
         /\ \A j \in Keys \ {KeyInStep(c)} : circuits'[j] = circuits[j]
         /\ \A k \in Keys :
              (circuits[k] = NoCircuit /\ circuits'[k] # NoCircuit) =>
                /\ KeyInStep(c) = k
                /\ calls'[c].recS + calls'[c].recF = calls[c].recS + calls[c].recF + 1
         /\ (calls[c].pc = "idle" /\ calls'[c].kind = "cb"
               /\ circuits[calls'[c].key] = NoCircuit) =>
              /\ calls'[c].pc = "await" /\ calls'[c].invoked = 1
              /\ circuits'[calls'[c].key] = NoCircuit]_vars

\* one key's circuit is open while the other key, which a call has just
\* queried, has no record yet
C33_Witness ==
  \E c \in SoloCalls, a \in IsolationKeys, b \in IsolationKeys :
    /\ a # b
    /\ circuits[a].state = "OPEN"
    /\ circuits[b] = NoCircuit
    /\ calls[c].kind = "cb" /\ calls[c].key = b /\ calls[c].pc = "await"

(* ---------------- withRetry is bounded ---------------- *)
Max(a, b) == IF a >= b THEN a ELSE b

\* the clock of the model can advance no further
ClockExhausted == \A d \in SharedTicks : now + d > Epoch + Horizon

\* C34: a withRetry call with maxRetries = m, any integer, never invokes the
\* operation more than max(m, 0) times and waits only between two
\* invocations, so that every wait but the one in progress has been followed
\* by an invocation; for m >= 1 it has invoked the operation once when
\* it settles, unless it failed with the circuit-open error; and a call in
\* progress settles, as long as time can pass
C34_RetryBoundedAndSettles ==
  /\ [](\A c \in Calls :
          calls[c].kind = "retry" =>
            /\ calls[c].invoked <= Max(calls[c].maxRetries, 0)
            /\ Len(calls[c].waits) <=
                 (IF calls[c].pc = "sleep" THEN calls[c].invoked
                  ELSE Max(calls[c].invoked - 1, 0))
            /\ (calls[c].pc = "done" /\ calls[c].maxRetries >= 1
                  /\ calls[c].result.code # "INVALID_STATE") => calls[c].invoked >= 1
            /\ calls[c].pc = "done" => calls[c].result.tag \in {"resolved", "rejected"})
  /\ \A c \in SoloCalls :
       (calls[c].kind = "retry" /\ calls[c].pc \in {"await", "sleep"})
         ~> (calls[c].pc = "done" \/ ClockExhausted)

\* a call with a negative number of attempts has rejected without invoking
\* the operation
C34_Witness ==
  \E c \in SoloCalls :
    /\ calls[c].kind = "retry" /\ calls[c].pc = "done"
    /\ calls[c].maxRetries < 0
    /\ calls[c].invoked = 0 /\ calls[c].waits = <<>>
    /\ calls[c].result.tag = "rejected"

(* ---------------- both providers fail ---------------- *)
\* C35: when the remote initialization fails and the platform has no speech
\* API, getInstance rejects in that step with the error of the local
\* provider's initialize, the local provider stays uninitialized and nothing
\* is cached; and a getInstance that finds no cached instance starts again
\* with a new remote provider
C35_BothFailRejects ==
  [][\A g \in Getters :
       /\ (getters[g].pc = "remote" /\ getters'[g].pc # "remote" /\ ~speechApi
             /\ getters'[g].result.tag # "resolved") =>
            /\ getters'[g].pc = "done" /\ getters'[g].result.tag = "rejected"
            /\ getters'[g].error = LocalInitError
            /\ providers'[getters'[g].prov].kind = "mock"
            /\ ~providers'[getters'[g].prov].isInitialized
            /\ instance' = instance
            /\ instance' # getters'[g].prov
       /\ (getters[g].pc = "idle" /\ getters'[g].pc # "idle"
             /\ instance = NoProvider) =>
            /\ getters'[g].pc = "remote"
            /\ providers[getters'[g].prov].kind = "none"
            /\ providers'[getters'[g].prov].kind = "server"]_vars

\* one call has been rejected with the local provider's error, nothing is
\* cached, and the next call has constructed another remote provider
C35_Witness ==
  \E g \in Getters, h \in Getters :
    /\ getters[g].pc = "done" /\ getters[g].result.tag = "rejected"
    /\ getters[g].error = LocalInitError
    /\ instance = NoProvider
    /\ getters[h].pc = "remote"
    /\ getters[h].prov > getters[g].prov
    /\ providers[getters[h].prov].kind = "server"

\* C36: a provider whose initialize() has not completed, or that has been
\* cleaned up, is not marked initialized, and a synthesize call on a provider
\* that is not marked initialized is rejected in the calling step with the
\* initialization error: no request is sent, no audio is generated and
\* activeRequests stays as it was; this holds for an object a caller still
\* holds after TTSServiceFactory.reset()
C36_SynthesizeOnlyWhileInitialized ==
  [][/\ \A p \in ProviderIds :
          providers'[p].cleanups > 0 => ~providers'[p].isInitialized
     /\ \A g \in Getters :
          getters'[g].pc \in {"remote", "local"} =>
             ~providers'[getters'[g].prov].isInitialized
     /\ \A s \in Synths :
          SynthesizeCalled(s) =>
            LET p == synths'[s].prov
            IN IF providers[p].isInitialized
               THEN providers[p].cleanups = 0
               ELSE /\ synths'[s].pc = "done"
                    /\ synths'[s].result = SynthRejected("TTS service not initialized")
                    /\ synths'[s].generated = 0
                    /\ calls' = calls
                    /\ circuits' = circuits
                    /\ providers'[p].activeRequests = providers[p].activeRequests]_vars

\* a call on a local provider that was handed out, then cleaned up by
\* reset(), has been rejected
C36_Witness ==
  \E s \in Synths :
    /\ synths[s].pc = "done"
    /\ synths[s].result = SynthRejected("TTS service not initialized")
    /\ providers[synths[s].prov].kind = "mock"
    /\ providers[synths[s].prov].cleanups > 0
    /\ instance # synths[s].prov

\* the synthesize calls on provider p that have passed the initialization
\* check and wait for their audio
Unsettled(p) == {s \in Synths : synths[s].pc = "yield" /\ synths[s].prov = p}

\* C37: activeRequests of a local provider is the number of its synthesize
\* calls that passed the initialization check and have not settled: it is
\* never negative and is 0 when every call has settled, whether the calls
\* resolved, failed validation or were refused, however they overlap
C37_ActiveRequestsAccounting ==
  \A p \in ProviderIds :
    providers[p].kind = "mock" =>
      /\ providers[p].activeRequests = Cardinality(Unsettled(p))
      /\ providers[p].activeRequests >= 0
      /\ (\A s \in Synths : synths[s].pc \in {"idle", "done"}) =>
            providers[p].activeRequests = 0

\* one call waits for its audio while an overlapping call on the same
\* provider has failed validation
C37_Witness ==
  \E s, u \in Synths :
    /\ synths[s].pc = "yield"
    /\ synths[u].pc = "done"
    /\ synths[u].result = SynthRejected("SYNTHESIS_FAILED")
    /\ synths[u].prov = synths[s].prov
    /\ providers[synths[s].prov].activeRequests = 1

\* what the promise chain of a call of the patched speak has settled with
ChainRejected(u) ==
  \/ /\ speaks[u].pc = "synth"
     /\ synths[speaks[u].synth].result.tag = "rejected"
  \/ /\ speaks[u].pc = "play"
     /\ sessions[speaks[u].session].promise = "rejected"
ChainResolved(u) ==
  /\ speaks[u].pc = "play"
  /\ sessions[speaks[u].session].promise = "resolved"

\* C38: a call of the patched speak returns with tts.synthesize called and
\* nothing handed to the original speak; the original speak is handed the
\* call's own utterance, once, in the step that consumes a rejection of
\* synthesize or of play and in no other step, so never when both resolved
C38_FallbackExactlyOnRejection ==
  [][\A u \in Utterances :
       /\ (speaks[u].pc = "idle" /\ speaks'[u].pc # "idle") =>
            /\ speaks'[u].pc = "synth"
            /\ speaks'[u].original = <<>>
            /\ synths'[speaks'[u].synth].pc # "idle"
            /\ synths'[speaks'[u].synth].prov = adapter
       /\ (speaks'[u].pc = "done" /\ speaks[u].pc # "done") =>
            /\ ChainRejected(u) \/ ChainResolved(u)
            /\ ChainRejected(u) => speaks'[u].original = <<u>>
            /\ ChainResolved(u) => speaks'[u].original = <<>>
       /\ speaks'[u].original # speaks[u].original =>
            speaks'[u].pc = "done" /\ speaks[u].pc # "done"]_vars

\* one call has fallen back after play rejected, another has played to the
\* end without the original speak
C38_Witness ==
  \E u, w \in Utterances :
    /\ speaks[u].pc = "done" /\ speaks[u].original = <<u>> /\ speaks[u].session # 0
    /\ speaks[w].pc = "done" /\ speaks[w].original = <<>>

\* what JavaScript's String() makes of the values that are no Error
Shown(error) ==
  IF error = StringValue("e1") THEN "e1"
  ELSE IF error = NumberValue(42) THEN "42"
  ELSE IF error = NumberValue(0 - 7) THEN "-7"
  ELSE IF error = NullValue THEN "null"
  ELSE IF error = UndefinedValue THEN "undefined"
  ELSE "[object Object]"

IsError(error) == error.type \in {"AppError", "Error"}

\* C39: every call of handleError appends one record to the history, after
\* the records it held, and returns that record; the record's originalError
\* is the thrown value; an AppError keeps its code and every other value
\* gets UNKNOWN_ERROR; an Error's message is kept and a value that is no
\* Error gets String(value); without a severity in the options an Error is
\* MEDIUM and a value that is no Error LOW, and a severity in the options is
\* the record's severity
C39_HandleErrorClassification ==
  [][\A error \in ThrownValues, k \in SharedKeys, severity \in SeverityChoices :
       HandleError(error, k, severity) =>
         LET r == returned'
         IN /\ Len(errorHistory') = Len(errorHistory) + 1
            /\ SubSeq(errorHistory', 1, Len(errorHistory)) = errorHistory
            /\ errorHistory'[Len(errorHistory')] = r
            /\ r.originalError = error
            /\ r.context = k
            /\ r.code = (IF error.type = "AppError" THEN error.code ELSE "UNKNOWN_ERROR")
            /\ r.message = (IF IsError(error) THEN error.message ELSE Shown(error))
            /\ r.severity = (IF severity # NoSeverity THEN severity
                             ELSE IF IsError(error) THEN "MEDIUM" ELSE "LOW")]_vars

\* the history holds the record of a number thrown without a severity and,
\* after it, the record of an AppError handled with an explicit severity
C39_Witness ==
  /\ Len(errorHistory) = 2
  /\ errorHistory[1].originalError = NumberValue(42)
  /\ errorHistory[1].message = "42"
  /\ errorHistory[1].severity = "LOW"
  /\ errorHistory[2] = returned
  /\ returned.originalError = AppErrorObject("NETWORK_ERROR", "e1")
  /\ returned.code = "NETWORK_ERROR"
  /\ returned.severity = "CRITICAL"
====
